---- MODULE Spec2Model ----
(***************************************************************************)
(* Bearer-token verification of src/backend/auth.py: get_public_keys (the  *)
(* JWKS fetch with retry and backoff) and verify_token (demo bypass,       *)
(* header parse, key fetch, key selection, the five validation strategies, *)
(* the unverified-decode fallbacks, the explicit expiry check and the      *)
(* identity extraction).                                                    *)
(*                                                                         *)
(* Abstractions.  A token is a record of what the JWT library can observe  *)
(* of it: whether its header parses, whether its payload decodes, the kid  *)
(* and alg of its header, the key material that signed it and its claims.  *)
(* Text values are tuples of one-character strings, so that slicing        *)
(* (sub[:8]) is computed.  The clock is a coarse integer that may advance  *)
(* between any two steps of an invocation.                                 *)
(*                                                                         *)
(* Specifications.  Spec: one invocation of verify_token on every kind of  *)
(* token against a key service that may fail or answer with any key set.   *)
(* SpecIdentity: the same code on tokens carrying every combination of     *)
(* identity claims.  SpecM02: the variant of src/Module 02/backend/auth.py *)
(* (two endpoints, no retry).  SpecConc: two interleaved invocations.      *)
(***************************************************************************)
EXTENDS Integers, Sequences, FiniteSets, TLC

VARIABLES
    token,          \* credentials.credentials, the bearer token
    now,            \* the clock
    pc,             \* position inside verify_token / get_public_keys
    kid,            \* header kid (line 106)
    alg,            \* header alg (line 107)
    outer,          \* "attempt" of the loop at line 115
    attempt,        \* "attempt" of the loop at line 54
    jwks,           \* local jwks of verify_token
    keyIdx,         \* position of the scan at line 136
    public_key,     \* local public_key (unbound until line 135)
    strat,          \* i of the loop at line 193
    decoded_token,  \* local decoded_token
    result,         \* what verify_token returned or raised
    stages,         \* history: the stages entered, in order
    attempted,      \* history: outcome of each strategy attempted, in order
    fallback,       \* history: which unverified decode produced decoded_token
    gpkCalls,       \* history: number of get_public_keys calls
    requests,       \* history: number of HTTP requests of this invocation
    callResps,      \* history: responses seen by the current get_public_keys call
    callSleeps,     \* history: sleeps made by the current get_public_keys call
    got,            \* history: the last answer of the key service to this invocation
    other           \* the frame of a second, suspended invocation (if any)

vars == <<token, now, pc, kid, alg, outer, attempt, jwks, keyIdx,
          public_key, strat, decoded_token, result, stages, attempted,
          fallback, gpkCalls, requests, callResps, callSleeps, got, other>>

----------------------------------------------------------------------------
(* Bounds of the model *)

MaxKeys == 2
MaxTime == 2
MaxTokenLen == 22

(* Program constants *)

max_retries == 3
OuterAttempts == 3
NumStrategies == 5
SubPrefixLen == 8
LogPrefixLen == 20

None == "None"
Unbound == "UNBOUND"

CLIENT_ID == "client-id"
TenantIssuer == "https://login.microsoftonline.com/TENANT/v2.0"
CommonIssuer == "https://login.microsoftonline.com/common/v2.0"
TOKEN_EXPIRED_MSG == "Token has expired"

----------------------------------------------------------------------------
(* Text as tuples of characters *)

S_user_ == <<"u", "s", "e", "r", "_">>
S_unknown == <<"u", "n", "k", "n", "o", "w", "n">>
S_demo_user == <<"d", "e", "m", "o", "-", "u", "s", "e", "r">>
S_demo_email == <<"d", "e", "m", "o", "@", "e", "x", "a", "m", "p", "l", "e",
                  ".", "c", "o", "m">>
S_role_user == <<"u", "s", "e", "r">>
S_alice == <<"A", "l", "i">>
S_sub == <<"a", "b", "c", "d", "e", "f", "g", "h", "1", "2", "3", "4">>
S_abc == <<"a", "b", "c">>
S_name == <<"N", "a">>
S_pref == <<"p", "@", "x">>
S_uniq == <<"u", "@", "x">>
S_mail == <<"e", "@", "x">>
S_upn == <<"n", "@", "x">>
S_admin == <<"a", "d", "m", "i", "n">>
S_group == <<"g", "1">>

(* s[:n] of Python *)
Take(s, n) == SubSeq(s, 1, IF Len(s) < n THEN Len(s) ELSE n)

----------------------------------------------------------------------------
(* Claims: a Python dict, modelled as a function on the keys present *)

EmptyClaims == [k \in {} |-> 0]

Has(c, k) == k \in DOMAIN c

(* dict.get(k) is truthy, for a numeric claim: present and not 0 *)
TruthyNum(c, k) == Has(c, k) /\ c[k] # 0

(* dict.get(k) is truthy, for a text claim: present and not the empty string *)
TruthyText(c, k) == Has(c, k) /\ c[k] # <<>>

(* bool(dict) *)
DictTruthy(c) == DOMAIN c # {}

----------------------------------------------------------------------------
(* Tokens *)

Algs == {"RS256", "HS256"}
RsaAlgs == {"RS256"}
TokenKids == {"k1"}
KeyKids == {"k1", "k2"}
Materials == {"m1", "m2"}
Signers == {"m1"}

ExpValues == {0, 1, 2}

(* one aud/iss pair for each strategy that is the first to accept it:      *)
(* strategy 1, 2, 3, 4 and 5                                               *)
AudIssCases ==
    { <<CLIENT_ID, TenantIssuer>>, <<CLIENT_ID, CommonIssuer>>,
      <<"other-aud", TenantIssuer>>, <<CLIENT_ID, "other-iss">>,
      <<"other-aud", "other-iss">> }

IdentityPart == ("name" :> S_alice) @@ ("sub" :> S_sub)

ClaimsOf(ai) == ("aud" :> ai[1]) @@ ("iss" :> ai[2]) @@ IdentityPart

(* the claims the main specification draws from: every aud/iss case, with  *)
(* every exp and without exp, and the empty payload {}                     *)
ClaimsMain ==
    {ClaimsOf(ai) : ai \in AudIssCases}
    \cup {("exp" :> e) @@ ClaimsOf(ai) : e \in ExpValues, ai \in AudIssCases}
    \cup {EmptyClaims}

(* the claims of the tokens whose header names an HMAC algorithm: those    *)
(* strategy 1 would accept from an RSA-signed token                        *)
ClaimsHmac ==
    {ClaimsOf(<<CLIENT_ID, TenantIssuer>>)}
    \cup {("exp" :> e) @@ ClaimsOf(<<CLIENT_ID, TenantIssuer>>) : e \in ExpValues}

(* a text claim that is absent, the empty string, or the given value *)
OptText(k, v) == {EmptyClaims, k :> <<>>, k :> v}

(* the sub claim: absent, empty, shorter than the prefix, longer *)
OptSub == {EmptyClaims, "sub" :> <<>>, "sub" :> S_abc, "sub" :> S_sub}

(* a roles or a groups claim, or neither *)
OptRoles == {EmptyClaims, "roles" :> <<S_admin>>, "groups" :> <<S_group>>}

(* the claims the identity specification draws from: aud and iss as        *)
(* strategy 1 wants them, and every combination of the identity claims     *)
ClaimsIdentity ==
    {("aud" :> CLIENT_ID) @@ ("iss" :> TenantIssuer)
         @@ n @@ p @@ u @@ e @@ w @@ b @@ r :
       n \in OptText("name", S_name),
       p \in OptText("preferred_username", S_pref),
       u \in OptText("unique_name", S_uniq),
       e \in OptText("email", S_mail),
       w \in OptText("upn", S_upn),
       b \in OptSub,
       r \in OptRoles}

DemoToken ==
    [demo |-> TRUE, headerOK |-> FALSE, payloadOK |-> FALSE, kid |-> None,
     alg |-> "RS256", signer |-> "nobody", claims |-> EmptyClaims]

(* a non-demo token whose header does not parse: nothing else of it is read *)
MalformedTokens ==
    {[demo |-> FALSE, headerOK |-> FALSE, payloadOK |-> p, kid |-> None,
      alg |-> "RS256", signer |-> "nobody", claims |-> EmptyClaims] :
        p \in BOOLEAN}

(* header parses, payload is not a JSON object: every decode fails *)
UndecodableTokens ==
    {[demo |-> FALSE, headerOK |-> TRUE, payloadOK |-> FALSE, kid |-> k,
      alg |-> a, signer |-> s, claims |-> EmptyClaims] :
        k \in TokenKids, a \in Algs, s \in Signers}

WellFormedTokens ==
    {[demo |-> FALSE, headerOK |-> TRUE, payloadOK |-> TRUE, kid |-> k,
      alg |-> a, signer |-> s, claims |-> c] :
        k \in TokenKids, a \in RsaAlgs, s \in Signers, c \in ClaimsMain}
    \cup
    {[demo |-> FALSE, headerOK |-> TRUE, payloadOK |-> TRUE, kid |-> k,
      alg |-> a, signer |-> s, claims |-> c] :
        k \in TokenKids, a \in Algs \ RsaAlgs, s \in Signers, c \in ClaimsHmac}

Tokens == {DemoToken} \cup MalformedTokens \cup UndecodableTokens
          \cup WellFormedTokens

(* RS256 tokens signed by m1 carrying the identity claims *)
IdentityTokens ==
    {[demo |-> FALSE, headerOK |-> TRUE, payloadOK |-> TRUE, kid |-> "k1",
      alg |-> "RS256", signer |-> "m1", claims |-> c] : c \in ClaimsIdentity}

----------------------------------------------------------------------------
(* The key set served by the discovery endpoint *)

(* a JWK: its kid, the key material it holds, and whether                  *)
(* RSAAlgorithm.from_jwk converts it.  Every key with another kid than the *)
(* token's behaves alike, so one of them is enough.                        *)
JwkDomain ==
    {[kid |-> k, material |-> m, convertible |-> TRUE] :
        k \in TokenKids, m \in Materials}
    \cup {[kid |-> k, material |-> "malformed", convertible |-> FALSE] :
        k \in TokenKids}
    \cup {[kid |-> k, material |-> "m1", convertible |-> TRUE] :
        k \in KeyKids \ TokenKids}

JwksDocs == UNION {[1 .. n -> JwkDomain] : n \in 0 .. MaxKeys}

(* what one requests.get + raise_for_status + json() can give:             *)
(* "fail": timeout, connection error, HTTP error status, unparseable body  *)
(* "empty": the JSON object {}                                             *)
(* "ok": a JSON object with the key list                                   *)
Responses == {"fail", "empty", "ok"}

JwksNone == [kind |-> "None", keys |-> <<>>]
JwksEmpty == [kind |-> "empty", keys |-> <<>>]
JwksOf(doc) == [kind |-> "doc", keys |-> doc]

(* bool(jwks): None and {} are falsy *)
JwksTruthy(j) == j.kind = "doc"

----------------------------------------------------------------------------
(* The JWT library calls *)

(* jwt.get_unverified_header(token) succeeds *)
HeaderParses(t) == t.headerOK

(* jwt.decode(token, options={"verify_signature": False}) succeeds; it     *)
(* checks neither signature nor exp, aud, iss                              *)
UnverifiedDecodes(t) == t.payloadOK

(* faulty variant: strategy 1 expects the issuer without the version suffix *)
validation_strategies_v1Issuer(a) ==
    << [algorithms |-> {a}, audience |-> CLIENT_ID,
        issuer |-> "https://login.microsoftonline.com/TENANT",
        verify_aud |-> TRUE, verify_iss |-> TRUE],
       [algorithms |-> {a}, audience |-> CLIENT_ID, issuer |-> CommonIssuer,
        verify_aud |-> TRUE, verify_iss |-> TRUE],
       [algorithms |-> {a}, audience |-> None, issuer |-> TenantIssuer,
        verify_aud |-> FALSE, verify_iss |-> TRUE],
       [algorithms |-> {a}, audience |-> CLIENT_ID, issuer |-> None,
        verify_aud |-> TRUE, verify_iss |-> FALSE],
       [algorithms |-> {a}, audience |-> None, issuer |-> None,
        verify_aud |-> FALSE, verify_iss |-> FALSE] >>

(* faulty variant: the last strategy still enforces the audience *)
validation_strategies_NoPermissive(a) ==
    << [algorithms |-> {a}, audience |-> CLIENT_ID, issuer |-> TenantIssuer,
        verify_aud |-> TRUE, verify_iss |-> TRUE],
       [algorithms |-> {a}, audience |-> CLIENT_ID, issuer |-> CommonIssuer,
        verify_aud |-> TRUE, verify_iss |-> TRUE],
       [algorithms |-> {a}, audience |-> None, issuer |-> TenantIssuer,
        verify_aud |-> FALSE, verify_iss |-> TRUE],
       [algorithms |-> {a}, audience |-> CLIENT_ID, issuer |-> None,
        verify_aud |-> TRUE, verify_iss |-> FALSE],
       [algorithms |-> {a}, audience |-> CLIENT_ID, issuer |-> None,
        verify_aud |-> TRUE, verify_iss |-> FALSE] >>

(* faulty variant: the signature-only strategy comes second *)
validation_strategies_PermissiveEarly(a) ==
    << [algorithms |-> {a}, audience |-> CLIENT_ID, issuer |-> TenantIssuer,
        verify_aud |-> TRUE, verify_iss |-> TRUE],
       [algorithms |-> {a}, audience |-> None, issuer |-> None,
        verify_aud |-> FALSE, verify_iss |-> FALSE],
       [algorithms |-> {a}, audience |-> CLIENT_ID, issuer |-> CommonIssuer,
        verify_aud |-> TRUE, verify_iss |-> TRUE],
       [algorithms |-> {a}, audience |-> None, issuer |-> TenantIssuer,
        verify_aud |-> FALSE, verify_iss |-> TRUE],
       [algorithms |-> {a}, audience |-> CLIENT_ID, issuer |-> None,
        verify_aud |-> TRUE, verify_iss |-> FALSE] >>

(* the five validation strategies of lines 160-191; None: argument absent  *)
validation_strategies(a) ==
    << [algorithms |-> {a}, audience |-> CLIENT_ID, issuer |-> TenantIssuer,
        verify_aud |-> TRUE, verify_iss |-> TRUE],
       [algorithms |-> {a}, audience |-> CLIENT_ID, issuer |-> CommonIssuer,
        verify_aud |-> TRUE, verify_iss |-> TRUE],
       [algorithms |-> {a}, audience |-> None, issuer |-> TenantIssuer,
        verify_aud |-> FALSE, verify_iss |-> TRUE],
       [algorithms |-> {a}, audience |-> CLIENT_ID, issuer |-> None,
        verify_aud |-> TRUE, verify_iss |-> FALSE],
       [algorithms |-> {a}, audience |-> None, issuer |-> None,
        verify_aud |-> FALSE, verify_iss |-> FALSE] >>

(* signature verification by jwt.decode with an RSA public key object: the *)
(* header's alg must be among the accepted algorithms, must be an RSA      *)
(* algorithm (an HMAC algorithm rejects a key object), and the signature   *)
(* must have been made with that key                                       *)
SignatureValid(t, key, algorithms) ==
    /\ t.alg \in algorithms
    /\ t.alg \in RsaAlgs
    /\ t.signer = key

(* the exp check of jwt.decode (verify_exp is on by default): exp <= now   *)
(* is expired                                                              *)
LibExpValid(c, time) == Has(c, "exp") => c["exp"] > time

(* the aud check of jwt.decode *)
LibAudValid(c, s) ==
    IF ~s.verify_aud THEN TRUE
    ELSE IF s.audience = None THEN ~Has(c, "aud")
    ELSE Has(c, "aud") /\ c["aud"] = s.audience

(* the iss check of jwt.decode *)
LibIssValid(c, s) ==
    IF ~s.verify_iss \/ s.issuer = None THEN TRUE
    ELSE Has(c, "iss") /\ c["iss"] = s.issuer

(* the jwt.decode call of line 206 returns the claims rather than raising *)
StrategyPasses(t, key, s, time) ==
    /\ SignatureValid(t, key, s.algorithms)
    /\ t.payloadOK
    /\ LibExpValid(t.claims, time)
    /\ LibAudValid(t.claims, s)
    /\ LibIssValid(t.claims, s)

----------------------------------------------------------------------------
(* Identity extraction, lines 236-256 *)

(* faulty variant: only an absent sub gets the default, an empty one is cut *)
UserOf_EmptySub(c) ==
    IF TruthyText(c, "name") THEN c["name"]
    ELSE IF TruthyText(c, "preferred_username") THEN c["preferred_username"]
    ELSE IF TruthyText(c, "unique_name") THEN c["unique_name"]
    ELSE IF TruthyText(c, "email") THEN c["email"]
    ELSE IF TruthyText(c, "upn") THEN c["upn"]
    ELSE S_user_ \o (IF Has(c, "sub")
                       THEN Take(c["sub"], SubPrefixLen)
                       ELSE S_unknown)

(* faulty variant: unique_name is left out of the chain *)
UserOf_NoUniqueName(c) ==
    IF TruthyText(c, "name") THEN c["name"]
    ELSE IF TruthyText(c, "preferred_username") THEN c["preferred_username"]
    ELSE IF TruthyText(c, "email") THEN c["email"]
    ELSE IF TruthyText(c, "upn") THEN c["upn"]
    ELSE S_user_ \o (IF TruthyText(c, "sub")
                       THEN Take(c["sub"], SubPrefixLen)
                       ELSE S_unknown)

(* "user": the or-chain of lines 237-242 *)
UserOf(c) ==
    IF TruthyText(c, "name") THEN c["name"]
    ELSE IF TruthyText(c, "preferred_username") THEN c["preferred_username"]
    ELSE IF TruthyText(c, "unique_name") THEN c["unique_name"]
    ELSE IF TruthyText(c, "email") THEN c["email"]
    ELSE IF TruthyText(c, "upn") THEN c["upn"]
    ELSE S_user_ \o (IF TruthyText(c, "sub")
                       THEN Take(c["sub"], SubPrefixLen)
                       ELSE S_unknown)

(* faulty variant: unique_name supplies the email before upn *)
EmailOf_WithUniqueName(c) ==
    IF TruthyText(c, "email") THEN c["email"]
    ELSE IF TruthyText(c, "preferred_username") THEN c["preferred_username"]
    ELSE IF TruthyText(c, "unique_name") THEN c["unique_name"]
    ELSE IF TruthyText(c, "upn") THEN c["upn"]
    ELSE <<>>

(* "email": the or-chain of lines 245-248 *)
EmailOf(c) ==
    IF TruthyText(c, "email") THEN c["email"]
    ELSE IF TruthyText(c, "preferred_username") THEN c["preferred_username"]
    ELSE IF TruthyText(c, "upn") THEN c["upn"]
    ELSE <<>>

(* sub, aud, iss and tid copied into user_info (an absent claim is absent  *)
(* here, None there)                                                       *)
Copied(c) == [k \in DOMAIN c \cap {"sub", "aud", "iss", "tid"} |-> c[k]]

(* "validated": "full" if public_key else "unverified" *)
ValidatedLabel(pk) == IF pk # None THEN "full" ELSE "unverified"

(* faulty variant: the roles claim of the token is passed on *)
user_info_RolesFromClaims(c, pk) ==
    [kind |-> "identity", user |-> UserOf(c), email |-> EmailOf(c),
     roles |-> IF Has(c, "roles") THEN c["roles"] ELSE <<S_role_user>>,
     copied |-> Copied(c), validated |-> ValidatedLabel(pk)]

(* the dict built at lines 235-256 *)
user_info(c, pk) ==
    [kind |-> "identity", user |-> UserOf(c), email |-> EmailOf(c),
     roles |-> <<S_role_user>>, copied |-> Copied(c),
     validated |-> ValidatedLabel(pk)]

(* the dict returned at line 91 *)
DemoIdentity ==
    [kind |-> "identity", user |-> S_demo_user, roles |-> <<S_role_user>>,
     email |-> S_demo_email]

(* faulty variant: the clause that re-raises an HTTPException is missing,   *)
(* so the catch-all clause converts it                                     *)
HTTPException_Converted(status, detail) ==
    [kind |-> "error", status |-> 401,
     detail |-> "Invalid authentication credentials"]

(* raise HTTPException(status_code, detail), re-raised at line 265 *)
HTTPException(status, detail) ==
    [kind |-> "error", status |-> status, detail |-> detail]

(* any other exception, converted at lines 266-268 *)
UnexpectedError ==
    HTTPException(401, "Invalid authentication credentials")

Pending == [kind |-> "pending"]

(* no request has been answered yet *)
NoAnswer == <<"none", <<>>>>

(* no second invocation *)
NoFrame == [pc |-> "none"]

(* decoded_token: None, or the claims dict *)
DecNone == [isNone |-> TRUE, claims |-> EmptyClaims]
Dec(c) == [isNone |-> FALSE, claims |-> c]

(* bool(decoded_token) *)
DecTruthy(d) == ~d.isNone /\ DictTruthy(d.claims)

(* faulty variant: a token is expired from the instant of its exp on *)
ManualExpired_NonStrict(c, time) == TruthyNum(c, "exp") /\ c["exp"] <= time

(* the explicit expiry check of lines 225-231 raises *)
ManualExpired(c, time) == TruthyNum(c, "exp") /\ c["exp"] < time

----------------------------------------------------------------------------
(* Initial state: verify_token is entered with some token *)

Init ==
    /\ token \in Tokens
    /\ now = 1
    /\ pc = "start"
    /\ kid = Unbound
    /\ alg = Unbound
    /\ outer = 0
    /\ attempt = 0
    /\ jwks = JwksNone
    /\ keyIdx = 1
    /\ public_key = Unbound
    /\ strat = 1
    /\ decoded_token = DecNone
    /\ result = Pending
    /\ stages = <<>>
    /\ attempted = <<>>
    /\ fallback = "none"
    /\ gpkCalls = 0
    /\ requests = 0
    /\ callResps = <<>>
    /\ callSleeps = <<>>
    /\ got = NoAnswer
    /\ other = NoFrame

fetchVars == <<outer, attempt, jwks, gpkCalls, requests, callResps, callSleeps>>
selectVars == <<keyIdx, public_key>>
strategyVars == <<strat, attempted>>

(* the clock advances.  The clock is read by jwt.decode in a strategy and  *)
(* by the expiry check only, so it is enough to let it advance right       *)
(* before those reads.                                                     *)
Tick ==
    /\ pc \in {"strategies", "finalize"}
    /\ now < MaxTime
    /\ now' = now + 1
    /\ UNCHANGED <<other, got,
                   token, pc, kid, alg, fetchVars, selectVars, strategyVars,
                   decoded_token, result, stages, fallback>>

----------------------------------------------------------------------------
(* verify_token, lines 86-111 *)

(* faulty variant: the demo token is not short-circuited *)
DemoAccept_NoShortCircuit ==
    /\ pc = "start"
    /\ token.demo
    /\ pc' = "header"
    /\ stages' = Append(stages, "demo_check")
    /\ UNCHANGED <<other, got,
                   token, now, kid, alg, fetchVars, selectVars, strategyVars,
                   decoded_token, result, fallback>>

(* lines 89-91: the demo token is accepted *)
DemoAccept ==
    /\ pc = "start"
    /\ token.demo
    /\ result' = DemoIdentity
    /\ pc' = "done"
    /\ stages' = Append(stages, "demo_check")
    /\ UNCHANGED <<other, got,
                   token, now, kid, alg, fetchVars, selectVars, strategyVars,
                   decoded_token, fallback>>

(* lines 89-101: any other token; the prefix and the payload preview are   *)
(* only logged                                                             *)
DemoReject ==
    /\ pc = "start"
    /\ ~token.demo
    /\ pc' = "header"
    /\ stages' = Append(stages, "demo_check")
    /\ UNCHANGED <<other, got,
                   token, now, kid, alg, fetchVars, selectVars, strategyVars,
                   decoded_token, result, fallback>>

(* faulty variant: a header that does not parse is not reported *)
HeaderParse_ContinueOnFailure ==
    /\ pc = "header"
    /\ stages' = Append(stages, "header_parse")
    /\ kid' = IF HeaderParses(token) THEN token.kid ELSE None
    /\ alg' = IF HeaderParses(token) THEN token.alg ELSE "RS256"
    /\ pc' = "fetch"
    /\ UNCHANGED <<other, got, token, now, fetchVars, selectVars, strategyVars,
                   decoded_token, result, fallback>>

(* lines 104-114 *)
HeaderParse ==
    /\ pc = "header"
    /\ stages' = Append(stages, "header_parse")
    /\ IF HeaderParses(token)
       THEN /\ kid' = token.kid
            /\ alg' = token.alg
            /\ pc' = "fetch"
            /\ result' = result
       ELSE /\ result' = HTTPException(401, "Invalid token format")
            /\ pc' = "done"
            /\ UNCHANGED <<kid, alg>>
    /\ UNCHANGED <<other, got, token, now, fetchVars, selectVars, strategyVars,
                   decoded_token, fallback>>

----------------------------------------------------------------------------
(* get_public_keys, lines 47-79, and the loop around it, lines 115-122 *)

(* faulty variant: a linear delay *)
Backoff_Linear(a) == 2 * a

(* time.sleep(2 ** attempt), line 76 *)
Backoff(a) == 2 ^ a

(* line 74: a sleep follows every failed attempt but the last *)
SleepsAfter(a) == a < max_retries - 1

(* line 117: verify_token calls get_public_keys *)
CallGetPublicKeys ==
    /\ pc = "fetch"
    /\ outer < OuterAttempts
    /\ pc' = "gpk"
    /\ attempt' = 0
    /\ gpkCalls' = gpkCalls + 1
    /\ callResps' = <<>>
    /\ callSleeps' = <<>>
    /\ stages' = IF outer = 0 THEN Append(stages, "key_fetch") ELSE stages
    /\ UNCHANGED <<other, got,
                   token, now, kid, alg, outer, jwks, requests, selectVars,
                   strategyVars, decoded_token, result, fallback>>

(* one iteration of the loop at line 54: a request, then either a return   *)
(* with the parsed document or a failure, a sleep and the next iteration   *)
GpkAttempt(resp, doc) ==
    /\ pc = "gpk"
    /\ attempt < max_retries
    /\ requests' = requests + 1
    /\ callResps' = Append(callResps, resp)
    /\ IF resp = "fail"
       THEN /\ callSleeps' = IF SleepsAfter(attempt)
                                THEN Append(callSleeps, Backoff(attempt))
                                ELSE callSleeps
            /\ attempt' = attempt + 1
            /\ IF attempt + 1 < max_retries
               THEN /\ pc' = "gpk"
                    /\ jwks' = jwks
               ELSE /\ pc' = "fetch_ret"
                    /\ jwks' = JwksNone
       ELSE /\ jwks' = IF resp = "empty" THEN JwksEmpty ELSE JwksOf(doc)
            /\ pc' = "fetch_ret"
            /\ UNCHANGED <<attempt, callSleeps>>
    /\ got' = <<resp, doc>>
    /\ UNCHANGED <<other, token, now, kid, alg, outer, gpkCalls, selectVars,
                   strategyVars, decoded_token, result, stages, fallback>>

(* faulty variant: one more call of get_public_keys than range(3) allows *)
FetchCheck_ExtraAttempt ==
    /\ pc = "fetch_ret"
    /\ IF JwksTruthy(jwks)
       THEN /\ pc' = "fetched"
            /\ outer' = outer
       ELSE /\ outer' = IF outer + 1 < OuterAttempts THEN outer + 1 ELSE outer
            /\ pc' = IF gpkCalls <= OuterAttempts THEN "fetch" ELSE "fetched"
    /\ attempt' = 0
    /\ callResps' = <<>>
    /\ callSleeps' = <<>>
    /\ UNCHANGED <<other, got, token, now, kid, alg, jwks, gpkCalls, requests,
                   selectVars, strategyVars, decoded_token, result, stages,
                   fallback>>

(* lines 118-120: break on a truthy key set, else the next attempt.  The   *)
(* locals of the finished get_public_keys call are gone.                   *)
FetchCheck ==
    /\ pc = "fetch_ret"
    /\ IF JwksTruthy(jwks)
       THEN /\ pc' = "fetched"
            /\ outer' = outer
       ELSE /\ outer' = outer + 1
            /\ pc' = IF outer + 1 < OuterAttempts THEN "fetch" ELSE "fetched"
    /\ attempt' = 0
    /\ callResps' = <<>>
    /\ callSleeps' = <<>>
    /\ UNCHANGED <<other, got, token, now, kid, alg, jwks, gpkCalls, requests,
                   selectVars, strategyVars, decoded_token, result, stages,
                   fallback>>

----------------------------------------------------------------------------
(* verify_token, lines 124-221 *)

(* lines 124-132: no key set; the payload is decoded without verification  *)
NoKeysFallback ==
    /\ pc = "fetched"
    /\ ~JwksTruthy(jwks)
    /\ IF UnverifiedDecodes(token)
       THEN /\ decoded_token' = Dec(token.claims)
            /\ fallback' = "no_keys"
            /\ pc' = "finalize"
            /\ result' = result
       ELSE /\ result' = HTTPException(500, "Authentication service unavailable")
            /\ pc' = "done"
            /\ UNCHANGED <<decoded_token, fallback>>
    /\ UNCHANGED <<other, got,
                   token, now, kid, alg, fetchVars, selectVars, strategyVars,
                   stages>>

(* lines 133-136: the scan of jwks["keys"] begins *)
BeginScan ==
    /\ pc = "fetched"
    /\ JwksTruthy(jwks)
    /\ public_key' = None
    /\ keyIdx' = 1
    /\ pc' = IF Len(jwks.keys) = 0 THEN "selected" ELSE "scan"
    /\ stages' = Append(stages, "key_match")
    /\ UNCHANGED <<other, got, token, now, kid, alg, fetchVars, strategyVars,
                   decoded_token, result, fallback>>

(* faulty variant: the scan does not move on from a key that is not taken *)
ScanKey_NoAdvance ==
    /\ pc = "scan"
    /\ keyIdx <= Len(jwks.keys)
    /\ LET key == jwks.keys[keyIdx] IN
       IF key.kid = kid /\ key.convertible
       THEN /\ public_key' = key.material
            /\ pc' = "selected"
            /\ keyIdx' = keyIdx
       ELSE /\ public_key' = public_key
            /\ keyIdx' = keyIdx
            /\ pc' = "scan"
    /\ UNCHANGED <<other, got, token, now, kid, alg, fetchVars, strategyVars,
                   decoded_token, result, stages, fallback>>

(* faulty variant: a failed conversion ends the scan *)
ScanKey_StopOnBadKey ==
    /\ pc = "scan"
    /\ keyIdx <= Len(jwks.keys)
    /\ LET key == jwks.keys[keyIdx] IN
       IF key.kid = kid
       THEN /\ public_key' = IF key.convertible THEN key.material ELSE public_key
            /\ pc' = "selected"
            /\ keyIdx' = keyIdx
       ELSE /\ public_key' = public_key
            /\ keyIdx' = keyIdx + 1
            /\ pc' = IF keyIdx = Len(jwks.keys) THEN "selected" ELSE "scan"
    /\ UNCHANGED <<other, got, token, now, kid, alg, fetchVars, strategyVars,
                   decoded_token, result, stages, fallback>>

(* lines 136-145: one key of the scan *)
ScanKey ==
    /\ pc = "scan"
    /\ keyIdx <= Len(jwks.keys)
    /\ LET key == jwks.keys[keyIdx] IN
       IF key.kid = kid /\ key.convertible
       THEN /\ public_key' = key.material
            /\ pc' = "selected"
            /\ keyIdx' = keyIdx
       ELSE /\ public_key' = public_key
            /\ keyIdx' = keyIdx + 1
            /\ pc' = IF keyIdx = Len(jwks.keys) THEN "selected" ELSE "scan"
    /\ UNCHANGED <<other, got, token, now, kid, alg, fetchVars, strategyVars,
                   decoded_token, result, stages, fallback>>

(* lines 147-156: no key selected; the payload is decoded without          *)
(* verification                                                            *)
KeyNotFoundFallback ==
    /\ pc = "selected"
    /\ public_key = None
    /\ IF UnverifiedDecodes(token)
       THEN /\ decoded_token' = Dec(token.claims)
            /\ fallback' = "key_not_found"
            /\ pc' = "finalize"
            /\ result' = result
       ELSE /\ result' = HTTPException(401, "Invalid token signature")
            /\ pc' = "done"
            /\ UNCHANGED <<decoded_token, fallback>>
    /\ UNCHANGED <<other, got,
                   token, now, kid, alg, fetchVars, selectVars, strategyVars,
                   stages>>

(* faulty variant: the strategies run although no key was selected *)
BeginStrategies_WithoutKey ==
    /\ pc = "selected"
    /\ decoded_token' = DecNone
    /\ strat' = 1
    /\ pc' = "strategies"
    /\ stages' = Append(stages, "strategy_eval")
    /\ UNCHANGED <<other, got,
                   token, now, kid, alg, fetchVars, selectVars, attempted,
                   result, fallback>>

(* lines 157-191: a key was selected; the strategies are set up *)
BeginStrategies ==
    /\ pc = "selected"
    /\ public_key # None
    /\ decoded_token' = DecNone
    /\ strat' = 1
    /\ pc' = "strategies"
    /\ stages' = Append(stages, "strategy_eval")
    /\ UNCHANGED <<other, got,
                   token, now, kid, alg, fetchVars, selectVars, attempted,
                   result, fallback>>

(* faulty variant: no break after a strategy that passes *)
TryStrategy_NoBreak ==
    /\ pc = "strategies"
    /\ strat <= NumStrategies
    /\ LET ok == StrategyPasses(token, public_key,
                                validation_strategies(alg)[strat], now) IN
       /\ decoded_token' = IF ok THEN Dec(token.claims) ELSE decoded_token
       /\ attempted' = Append(attempted, ok)
    /\ strat' = strat + 1
    /\ pc' = IF strat = NumStrategies THEN "after_strategies" ELSE "strategies"
    /\ UNCHANGED <<other, got,
                   token, now, kid, alg, fetchVars, selectVars, result,
                   stages, fallback>>

(* lines 193-211: one strategy; break on the first that passes *)
TryStrategy ==
    /\ pc = "strategies"
    /\ strat <= NumStrategies
    /\ IF StrategyPasses(token, public_key, validation_strategies(alg)[strat], now)
       THEN /\ decoded_token' = Dec(token.claims)
            /\ attempted' = Append(attempted, TRUE)
            /\ pc' = "after_strategies"
            /\ strat' = strat
       ELSE /\ attempted' = Append(attempted, FALSE)
            /\ strat' = strat + 1
            /\ pc' = IF strat = NumStrategies THEN "after_strategies"
                                              ELSE "strategies"
            /\ decoded_token' = decoded_token
    /\ UNCHANGED <<other, got,
                   token, now, kid, alg, fetchVars, selectVars, result,
                   stages, fallback>>

(* lines 214-221: without decoded claims, the payload is decoded without   *)
(* verification                                                            *)
AfterStrategies ==
    /\ pc = "after_strategies"
    /\ IF DecTruthy(decoded_token)
       THEN /\ pc' = "finalize"
            /\ UNCHANGED <<decoded_token, fallback, result>>
       ELSE IF UnverifiedDecodes(token)
       THEN /\ decoded_token' = Dec(token.claims)
            /\ fallback' = "all_failed"
            /\ pc' = "finalize"
            /\ result' = result
       ELSE /\ result' = HTTPException(401, "Token validation failed")
            /\ pc' = "done"
            /\ UNCHANGED <<decoded_token, fallback>>
    /\ UNCHANGED <<other, got,
                   token, now, kid, alg, fetchVars, selectVars, strategyVars,
                   stages>>

----------------------------------------------------------------------------
(* verify_token, lines 223-268 *)

(* the expiry check and the identity extraction; reading public_key while  *)
(* it is unbound raises UnboundLocalError, converted at line 268           *)
Finalize ==
    /\ pc = "finalize"
    /\ pc' = "done"
    /\ stages' = Append(stages, "finalize")
    /\ result' =
         IF ~DecTruthy(decoded_token)
         THEN HTTPException(401, "Invalid token")
         ELSE IF ManualExpired(decoded_token.claims, now)
         THEN HTTPException(401, TOKEN_EXPIRED_MSG)
         ELSE IF public_key = Unbound
         THEN UnexpectedError
         ELSE user_info(decoded_token.claims, public_key)
    /\ UNCHANGED <<other, got,
                   token, now, kid, alg, fetchVars, selectVars, strategyVars,
                   decoded_token, fallback>>

----------------------------------------------------------------------------

Next ==
    \/ Tick
    \/ DemoAccept
    \/ DemoReject
    \/ HeaderParse
    \/ CallGetPublicKeys
    \/ \E resp \in Responses, doc \in JwksDocs :
          /\ (resp # "ok" => doc = <<>>)
          /\ GpkAttempt(resp, doc)
    \/ FetchCheck
    \/ NoKeysFallback
    \/ BeginScan
    \/ ScanKey
    \/ KeyNotFoundFallback
    \/ BeginStrategies
    \/ TryStrategy
    \/ AfterStrategies
    \/ Finalize

Spec == Init /\ [][Next]_vars

----------------------------------------------------------------------------
(* The identity specification: verify_token on tokens that carry every     *)
(* combination of identity claims, with a key service that answers the     *)
(* first request.  The three key sets lead to the three ways an identity   *)
(* is built: no key with the token's kid (unverified), the signing key     *)
(* (full), another key under the token's kid (every strategy fails, then   *)
(* unverified).                                                            *)

IdentityDocs ==
    { <<>>,
      <<[kid |-> "k1", material |-> "m1", convertible |-> TRUE]>>,
      <<[kid |-> "k1", material |-> "m2", convertible |-> TRUE]>> }

InitIdentity ==
    /\ token \in IdentityTokens \cup {DemoToken}
    /\ now = 1
    /\ pc = "start"
    /\ kid = Unbound
    /\ alg = Unbound
    /\ outer = 0
    /\ attempt = 0
    /\ jwks = JwksNone
    /\ keyIdx = 1
    /\ public_key = Unbound
    /\ strat = 1
    /\ decoded_token = DecNone
    /\ result = Pending
    /\ stages = <<>>
    /\ attempted = <<>>
    /\ fallback = "none"
    /\ gpkCalls = 0
    /\ requests = 0
    /\ callResps = <<>>
    /\ callSleeps = <<>>
    /\ got = NoAnswer
    /\ other = NoFrame

NextIdentity ==
    \/ DemoAccept
    \/ DemoReject
    \/ HeaderParse
    \/ CallGetPublicKeys
    \/ \E doc \in IdentityDocs : GpkAttempt("ok", doc)
    \/ FetchCheck
    \/ BeginScan
    \/ ScanKey
    \/ KeyNotFoundFallback
    \/ BeginStrategies
    \/ TryStrategy
    \/ AfterStrategies
    \/ Finalize

SpecIdentity == InitIdentity /\ [][NextIdentity]_vars

----------------------------------------------------------------------------
(* The Module 02 variant, src/Module 02/backend/auth.py: get_public_keys   *)
(* asks two endpoints, one request each, and raises when both fail;        *)
(* verify_token has no fallback decode before the strategies, three        *)
(* audience/issuer configurations, a relaxed validation, a final           *)
(* unverified decode, and no expiry check of its own.                      *)

(* lines 44-47 *)
M2_endpoints == <<"tenant", "common">>

StsIssuer == "https://sts.windows.net/TENANT/"
ApiAudience == "api://client-id"

(* one aud/iss pair for each configuration that is the first to accept it, *)
(* and one that only the relaxed validation accepts                        *)
M2_AudIssCases ==
    { <<CLIENT_ID, TenantIssuer>>, <<CLIENT_ID, StsIssuer>>,
      <<ApiAudience, TenantIssuer>>, <<"other-aud", "other-iss">> }

M2_Claims ==
    {ClaimsOf(ai) : ai \in M2_AudIssCases}
    \cup {("exp" :> e) @@ ClaimsOf(ai) : e \in ExpValues, ai \in M2_AudIssCases}
    \cup {EmptyClaims}

M2_Tokens ==
    {DemoToken} \cup MalformedTokens \cup UndecodableTokens
    \cup {[demo |-> FALSE, headerOK |-> TRUE, payloadOK |-> TRUE, kid |-> k,
           alg |-> a, signer |-> s, claims |-> c] :
            k \in TokenKids, a \in RsaAlgs, s \in Signers, c \in M2_Claims}
    \cup {[demo |-> FALSE, headerOK |-> TRUE, payloadOK |-> TRUE, kid |-> k,
           alg |-> a, signer |-> s, claims |-> c] :
            k \in TokenKids, a \in Algs \ RsaAlgs, s \in Signers,
            c \in ClaimsHmac}

(* lines 103-116: the three configurations; both checks are on *)
M2_validation_configs(a) ==
    << [algorithms |-> {a}, audience |-> CLIENT_ID, issuer |-> TenantIssuer,
        verify_aud |-> TRUE, verify_iss |-> TRUE],
       [algorithms |-> {a}, audience |-> CLIENT_ID, issuer |-> StsIssuer,
        verify_aud |-> TRUE, verify_iss |-> TRUE],
       [algorithms |-> {a}, audience |-> ApiAudience, issuer |-> TenantIssuer,
        verify_aud |-> TRUE, verify_iss |-> TRUE] >>

(* lines 136-141: signature and exp only *)
M2_relaxed(a) ==
    [algorithms |-> {a}, audience |-> None, issuer |-> None,
     verify_aud |-> FALSE, verify_iss |-> FALSE]

(* lines 160-165 *)
M2_UserOf(c) ==
    IF TruthyText(c, "name") THEN c["name"]
    ELSE IF TruthyText(c, "preferred_username") THEN c["preferred_username"]
    ELSE IF TruthyText(c, "email") THEN c["email"]
    ELSE S_user_ \o Take(IF Has(c, "sub") THEN c["sub"] ELSE S_unknown,
                         SubPrefixLen)

(* lines 159-176 *)
M2_user_info(c) ==
    [kind |-> "identity", user |-> M2_UserOf(c), email |-> EmailOf(c),
     roles |-> <<S_role_user>>,
     copied |-> [k \in DOMAIN c \cap {"sub", "tid"} |-> c[k]]]

M2_Init ==
    /\ token \in M2_Tokens
    /\ now = 1
    /\ pc = "m2_start"
    /\ kid = Unbound
    /\ alg = Unbound
    /\ outer = 0
    /\ attempt = 0
    /\ jwks = JwksNone
    /\ keyIdx = 1
    /\ public_key = Unbound
    /\ strat = 1
    /\ decoded_token = DecNone
    /\ result = Pending
    /\ stages = <<>>
    /\ attempted = <<>>
    /\ fallback = "none"
    /\ gpkCalls = 0
    /\ requests = 0
    /\ callResps = <<>>
    /\ callSleeps = <<>>
    /\ got = NoAnswer
    /\ other = NoFrame

(* the clock is read by the jwt.decode calls of lines 120 and 136 *)
M2_Tick ==
    /\ pc \in {"m2_configs", "m2_relaxed"}
    /\ now < MaxTime
    /\ now' = now + 1
    /\ UNCHANGED <<other, got,
                   token, pc, kid, alg, fetchVars, selectVars, strategyVars,
                   decoded_token, result, stages, fallback>>

(* lines 65-66 *)
M2_DemoAccept ==
    /\ pc = "m2_start"
    /\ token.demo
    /\ result' = DemoIdentity
    /\ pc' = "done"
    /\ stages' = Append(stages, "demo_check")
    /\ UNCHANGED <<other, got,
                   token, now, kid, alg, fetchVars, selectVars, strategyVars,
                   decoded_token, fallback>>

M2_DemoReject ==
    /\ pc = "m2_start"
    /\ ~token.demo
    /\ pc' = "m2_header"
    /\ stages' = Append(stages, "demo_check")
    /\ UNCHANGED <<other, got,
                   token, now, kid, alg, fetchVars, selectVars, strategyVars,
                   decoded_token, result, fallback>>

(* lines 69-79: the header, then the call of get_public_keys *)
M2_HeaderParse ==
    /\ pc = "m2_header"
    /\ IF HeaderParses(token)
       THEN /\ kid' = token.kid
            /\ alg' = token.alg
            /\ pc' = "m2_gpk"
            /\ gpkCalls' = gpkCalls + 1
            /\ stages' = stages \o <<"header_parse", "key_fetch">>
            /\ result' = result
       ELSE /\ result' = HTTPException(401, "Invalid token format")
            /\ pc' = "done"
            /\ stages' = Append(stages, "header_parse")
            /\ UNCHANGED <<kid, alg, gpkCalls>>
    /\ UNCHANGED <<other, got,
                   token, now, outer, attempt, jwks, requests, callResps,
                   callSleeps, selectVars, strategyVars, decoded_token,
                   fallback>>

(* lines 49-58 and 78-82: one iteration of the loop over the endpoints: a  *)
(* request, then either the return of the parsed body or the next          *)
(* endpoint; after the last endpoint the exception, which verify_token     *)
(* turns into 401                                                          *)
M2_Request(resp, doc) ==
    /\ pc = "m2_gpk"
    /\ attempt < Len(M2_endpoints)
    /\ requests' = requests + 1
    /\ callResps' = Append(callResps, <<M2_endpoints[attempt + 1], resp>>)
    /\ IF resp = "fail"
       THEN /\ attempt' = attempt + 1
            /\ jwks' = jwks
            /\ IF attempt + 1 < Len(M2_endpoints)
               THEN /\ pc' = "m2_gpk"
                    /\ result' = result
               ELSE /\ pc' = "done"
                    /\ result' = HTTPException(401, "Unable to validate token")
       ELSE /\ jwks' = IF resp = "empty" THEN JwksEmpty ELSE JwksOf(doc)
            /\ pc' = "m2_fetched"
            /\ UNCHANGED <<attempt, result>>
    /\ got' = <<resp, doc>>
    /\ UNCHANGED <<other, token, now, kid, alg, outer, gpkCalls, callSleeps,
                   selectVars, strategyVars, decoded_token, stages, fallback>>

(* lines 84-85: jwks.get('keys', []); the JSON object {} has no keys *)
M2_BeginScan ==
    /\ pc = "m2_fetched"
    /\ public_key' = None
    /\ keyIdx' = 1
    /\ pc' = IF Len(jwks.keys) = 0 THEN "m2_selected" ELSE "m2_scan"
    /\ stages' = Append(stages, "key_match")
    /\ UNCHANGED <<other, got, token, now, kid, alg, fetchVars, strategyVars,
                   decoded_token, result, fallback>>

(* lines 85-92: one key of the scan *)
M2_ScanKey ==
    /\ pc = "m2_scan"
    /\ keyIdx <= Len(jwks.keys)
    /\ LET key == jwks.keys[keyIdx] IN
       IF key.kid = kid /\ key.convertible
       THEN /\ public_key' = key.material
            /\ pc' = "m2_selected"
            /\ keyIdx' = keyIdx
       ELSE /\ public_key' = public_key
            /\ keyIdx' = keyIdx + 1
            /\ pc' = IF keyIdx = Len(jwks.keys) THEN "m2_selected"
                                                ELSE "m2_scan"
    /\ UNCHANGED <<other, got, token, now, kid, alg, fetchVars, strategyVars,
                   decoded_token, result, stages, fallback>>

(* faulty variant: without a key the token is decoded unverified *)
M2_KeyNotFound_Fallback ==
    /\ pc = "m2_selected"
    /\ public_key = None
    /\ result' = result
    /\ pc' = "m2_unverified"
    /\ UNCHANGED <<other, got,
                   token, now, kid, alg, fetchVars, selectVars, strategyVars,
                   decoded_token, stages, fallback>>

(* lines 94-96 *)
M2_KeyNotFound ==
    /\ pc = "m2_selected"
    /\ public_key = None
    /\ result' = HTTPException(401, "Invalid token signature")
    /\ pc' = "done"
    /\ UNCHANGED <<other, got,
                   token, now, kid, alg, fetchVars, selectVars, strategyVars,
                   decoded_token, stages, fallback>>

(* lines 98-116 *)
M2_BeginConfigs ==
    /\ pc = "m2_selected"
    /\ public_key # None
    /\ decoded_token' = DecNone
    /\ strat' = 1
    /\ pc' = "m2_configs"
    /\ stages' = Append(stages, "strategy_eval")
    /\ UNCHANGED <<other, got,
                   token, now, kid, alg, fetchVars, selectVars, attempted,
                   result, fallback>>

(* lines 118-131: one configuration; break on the first that passes *)
M2_TryConfig ==
    /\ pc = "m2_configs"
    /\ strat <= Len(M2_validation_configs(alg))
    /\ IF StrategyPasses(token, public_key, M2_validation_configs(alg)[strat], now)
       THEN /\ decoded_token' = Dec(token.claims)
            /\ attempted' = Append(attempted, TRUE)
            /\ pc' = "m2_after_configs"
            /\ strat' = strat
       ELSE /\ attempted' = Append(attempted, FALSE)
            /\ strat' = strat + 1
            /\ pc' = IF strat = Len(M2_validation_configs(alg))
                       THEN "m2_after_configs" ELSE "m2_configs"
            /\ decoded_token' = decoded_token
    /\ UNCHANGED <<other, got,
                   token, now, kid, alg, fetchVars, selectVars, result,
                   stages, fallback>>

(* line 133: if not decoded_token *)
M2_AfterConfigs ==
    /\ pc = "m2_after_configs"
    /\ pc' = IF DecTruthy(decoded_token) THEN "m2_extract" ELSE "m2_relaxed"
    /\ UNCHANGED <<other, got,
                   token, now, kid, alg, fetchVars, selectVars, strategyVars,
                   decoded_token, result, stages, fallback>>

(* lines 134-143: the relaxed validation *)
M2_Relaxed ==
    /\ pc = "m2_relaxed"
    /\ IF StrategyPasses(token, public_key, M2_relaxed(alg), now)
       THEN /\ decoded_token' = Dec(token.claims)
            /\ attempted' = Append(attempted, TRUE)
            /\ pc' = "m2_extract"
       ELSE /\ attempted' = Append(attempted, FALSE)
            /\ pc' = "m2_unverified"
            /\ decoded_token' = decoded_token
    /\ UNCHANGED <<other, got,
                   token, now, kid, alg, fetchVars, selectVars, strat, result,
                   stages, fallback>>

(* lines 145-156: the final decode without verification *)
M2_Unverified ==
    /\ pc = "m2_unverified"
    /\ IF UnverifiedDecodes(token)
       THEN /\ decoded_token' = Dec(token.claims)
            /\ fallback' = "all_failed"
            /\ pc' = "m2_extract"
            /\ result' = result
       ELSE /\ result' = HTTPException(401, "Token validation failed")
            /\ pc' = "done"
            /\ UNCHANGED <<decoded_token, fallback>>
    /\ UNCHANGED <<other, got,
                   token, now, kid, alg, fetchVars, selectVars, strategyVars,
                   stages>>

(* lines 158-179 *)
M2_Extract ==
    /\ pc = "m2_extract"
    /\ pc' = "done"
    /\ stages' = Append(stages, "finalize")
    /\ result' = M2_user_info(decoded_token.claims)
    /\ UNCHANGED <<other, got,
                   token, now, kid, alg, fetchVars, selectVars, strategyVars,
                   decoded_token, fallback>>

M2_Next ==
    \/ M2_Tick
    \/ M2_DemoAccept
    \/ M2_DemoReject
    \/ M2_HeaderParse
    \/ \E resp \in Responses, doc \in JwksDocs :
          /\ (resp # "ok" => doc = <<>>)
          /\ M2_Request(resp, doc)
    \/ M2_BeginScan
    \/ M2_ScanKey
    \/ M2_KeyNotFound
    \/ M2_BeginConfigs
    \/ M2_TryConfig
    \/ M2_AfterConfigs
    \/ M2_Relaxed
    \/ M2_Unverified
    \/ M2_Extract

SpecM02 == M2_Init /\ [][M2_Next]_vars

----------------------------------------------------------------------------
(* Two concurrent invocations of verify_token.  Every name verify_token    *)
(* and get_public_keys assign is a local of the call (neither function has *)
(* a global statement, and the module-level names CLIENT_ID, TENANT_ID,    *)
(* JWKS_URL, security and logger are only read), so an invocation is its   *)
(* frame.  The variables hold the frame of the invocation that is running, *)
(* "other" holds the frame of the suspended one, and a context switch      *)
(* exchanges them at any point.  The clock and the key service are the     *)
(* shared environment.                                                     *)

(* the locals of the running invocation, with its history *)
Frame ==
    [token |-> token, pc |-> pc, kid |-> kid, alg |-> alg, outer |-> outer,
     attempt |-> attempt, jwks |-> jwks, keyIdx |-> keyIdx,
     public_key |-> public_key, strat |-> strat,
     decoded_token |-> decoded_token, result |-> result, stages |-> stages,
     attempted |-> attempted, fallback |-> fallback, gpkCalls |-> gpkCalls,
     requests |-> requests, callResps |-> callResps,
     callSleeps |-> callSleeps, got |-> got]

(* the frame of an invocation that has just been entered with token t *)
EntryFrame(t) ==
    [token |-> t, pc |-> "start", kid |-> Unbound, alg |-> Unbound,
     outer |-> 0, attempt |-> 0, jwks |-> JwksNone, keyIdx |-> 1,
     public_key |-> Unbound, strat |-> 1, decoded_token |-> DecNone,
     result |-> Pending, stages |-> <<>>, attempted |-> <<>>,
     fallback |-> "none", gpkCalls |-> 0, requests |-> 0,
     callResps |-> <<>>, callSleeps |-> <<>>, got |-> NoAnswer]

(* faulty variant: jwks is a module-level name, shared by the invocations *)
Switch_SharedJwks ==
    /\ other # NoFrame
    /\ other.pc # "done"
    /\ other' = Frame
    /\ token' = other.token
    /\ pc' = other.pc
    /\ kid' = other.kid
    /\ alg' = other.alg
    /\ outer' = other.outer
    /\ attempt' = other.attempt
    /\ jwks' = jwks
    /\ keyIdx' = other.keyIdx
    /\ public_key' = other.public_key
    /\ strat' = other.strat
    /\ decoded_token' = other.decoded_token
    /\ result' = other.result
    /\ stages' = other.stages
    /\ attempted' = other.attempted
    /\ fallback' = other.fallback
    /\ gpkCalls' = other.gpkCalls
    /\ requests' = other.requests
    /\ callResps' = other.callResps
    /\ callSleeps' = other.callSleeps
    /\ got' = other.got
    /\ now' = now

(* the running invocation is suspended and the other one resumes *)
Switch ==
    /\ other # NoFrame
    /\ other.pc # "done"
    /\ other' = Frame
    /\ token' = other.token
    /\ pc' = other.pc
    /\ kid' = other.kid
    /\ alg' = other.alg
    /\ outer' = other.outer
    /\ attempt' = other.attempt
    /\ jwks' = other.jwks
    /\ keyIdx' = other.keyIdx
    /\ public_key' = other.public_key
    /\ strat' = other.strat
    /\ decoded_token' = other.decoded_token
    /\ result' = other.result
    /\ stages' = other.stages
    /\ attempted' = other.attempted
    /\ fallback' = other.fallback
    /\ gpkCalls' = other.gpkCalls
    /\ requests' = other.requests
    /\ callResps' = other.callResps
    /\ callSleeps' = other.callSleeps
    /\ got' = other.got
    /\ now' = now

(* a token strategy 1 accepts, and one whose payload does not decode *)
ConcTokens ==
    {[demo |-> FALSE, headerOK |-> TRUE, payloadOK |-> TRUE, kid |-> "k1",
      alg |-> "RS256", signer |-> "m1",
      claims |-> ClaimsOf(<<CLIENT_ID, TenantIssuer>>)],
     [demo |-> FALSE, headerOK |-> TRUE, payloadOK |-> FALSE, kid |-> "k1",
      alg |-> "RS256", signer |-> "m1", claims |-> EmptyClaims]}

(* a key set with the signing key, and one without a key of the kid *)
ConcDocs ==
    { <<[kid |-> "k1", material |-> "m1", convertible |-> TRUE]>>,
      <<[kid |-> "k2", material |-> "m1", convertible |-> TRUE]>> }

ConcInit ==
    /\ token \in ConcTokens
    /\ other \in {EntryFrame(t) : t \in ConcTokens}
    /\ now = 1
    /\ pc = "start"
    /\ kid = Unbound
    /\ alg = Unbound
    /\ outer = 0
    /\ attempt = 0
    /\ jwks = JwksNone
    /\ keyIdx = 1
    /\ public_key = Unbound
    /\ strat = 1
    /\ decoded_token = DecNone
    /\ result = Pending
    /\ stages = <<>>
    /\ attempted = <<>>
    /\ fallback = "none"
    /\ gpkCalls = 0
    /\ requests = 0
    /\ callResps = <<>>
    /\ callSleeps = <<>>
    /\ got = NoAnswer

ConcNext ==
    \/ Switch
    \/ DemoReject
    \/ HeaderParse
    \/ CallGetPublicKeys
    \/ \E resp \in {"fail", "ok"}, doc \in ConcDocs \cup {<<>>} :
          /\ (resp = "ok" <=> doc # <<>>)
          /\ GpkAttempt(resp, doc)
    \/ FetchCheck
    \/ NoKeysFallback
    \/ BeginScan
    \/ ScanKey
    \/ KeyNotFoundFallback
    \/ BeginStrategies
    \/ TryStrategy
    \/ AfterStrategies
    \/ Finalize

SpecConc == ConcInit /\ [][ConcNext]_vars

----------------------------------------------------------------------------
(* get_public_keys with the failures of a request told apart: what the     *)
(* try block of lines 55-65 can raise, and the except clauses of lines     *)
(* 66-73 that catch it.                                                    *)

(* requests.get raises Timeout or ConnectionError, raise_for_status raises *)
(* HTTPError, response.json() raises JSONDecodeError on an unparseable     *)
(* body, jwks_data.get raises AttributeError when the body is JSON but not *)
(* an object                                                               *)
ExceptionKinds ==
    {"Timeout", "ConnectionError", "HTTPError", "JSONDecodeError",
     "AttributeError"}

(* faulty variant: the catch-all clause is missing *)
except_clauses_NoCatchAll == <<"Timeout", "ConnectionError", "HTTPError">>

(* the except clauses of lines 66-73, in order *)
except_clauses == <<"Timeout", "ConnectionError", "HTTPError", "Exception">>

(* isinstance(e, cls): every kind is a subclass of Exception *)
IsInstance(e, cls) == cls = "Exception" \/ cls = e

Caught(e) ==
    \E i \in 1 .. Len(except_clauses) : IsInstance(e, except_clauses[i])

(* one iteration of the loop at line 54, with the outcome o of the try     *)
(* block: an exception kind, "empty" or "ok".  An exception no clause      *)
(* catches leaves get_public_keys and reaches line 266 of verify_token.    *)
GpkRequest(o, doc) ==
    /\ pc = "gpk"
    /\ attempt < max_retries
    /\ requests' = requests + 1
    /\ callResps' = Append(callResps, o)
    /\ got' = <<o, doc>>
    /\ IF o \in ExceptionKinds
       THEN IF Caught(o)
            THEN /\ callSleeps' = IF SleepsAfter(attempt)
                                     THEN Append(callSleeps, Backoff(attempt))
                                     ELSE callSleeps
                 /\ attempt' = attempt + 1
                 /\ result' = result
                 /\ IF attempt + 1 < max_retries
                    THEN /\ pc' = "gpk"
                         /\ jwks' = jwks
                    ELSE /\ pc' = "fetch_ret"
                         /\ jwks' = JwksNone
            ELSE /\ pc' = "done"
                 /\ result' = UnexpectedError
                 /\ UNCHANGED <<attempt, callSleeps, jwks>>
       ELSE /\ jwks' = IF o = "empty" THEN JwksEmpty ELSE JwksOf(doc)
            /\ pc' = "fetch_ret"
            /\ UNCHANGED <<attempt, callSleeps, result>>
    /\ UNCHANGED <<other, token, now, kid, alg, outer, gpkCalls, selectVars,
                   strategyVars, decoded_token, stages, fallback>>

FetchInit ==
    /\ token \in ConcTokens
    /\ other = NoFrame
    /\ now = 1
    /\ pc = "start"
    /\ kid = Unbound
    /\ alg = Unbound
    /\ outer = 0
    /\ attempt = 0
    /\ jwks = JwksNone
    /\ keyIdx = 1
    /\ public_key = Unbound
    /\ strat = 1
    /\ decoded_token = DecNone
    /\ result = Pending
    /\ stages = <<>>
    /\ attempted = <<>>
    /\ fallback = "none"
    /\ gpkCalls = 0
    /\ requests = 0
    /\ callResps = <<>>
    /\ callSleeps = <<>>
    /\ got = NoAnswer

FetchNext ==
    \/ DemoReject
    \/ HeaderParse
    \/ CallGetPublicKeys
    \/ \E o \in ExceptionKinds \cup {"empty", "ok"}, doc \in ConcDocs \cup {<<>>} :
          /\ (o = "ok" <=> doc # <<>>)
          /\ GpkRequest(o, doc)
    \/ FetchCheck
    \/ NoKeysFallback
    \/ BeginScan
    \/ ScanKey
    \/ KeyNotFoundFallback
    \/ BeginStrategies
    \/ TryStrategy
    \/ AfterStrategies
    \/ Finalize

SpecFetch == FetchInit /\ [][FetchNext]_vars

----------------------------------------------------------------------------
(* The token as a string, for what line 94 logs of it.  A token here has   *)
(* one more field, text, the characters of credentials.credentials.        *)

TextOfLen(n) == [i \in 1 .. n |-> "x"]

(* the token characters in the log record of line 94: token[:20] *)
TokenLogLine(t) == Take(t.text, LogPrefixLen)

(* strings of every length up to MaxTokenLen that are no JWT, and two      *)
(* tokens of the greatest length that are                                  *)
LogTokens ==
    {[demo |-> FALSE, headerOK |-> FALSE, payloadOK |-> FALSE, kid |-> None,
      alg |-> "RS256", signer |-> "nobody", claims |-> EmptyClaims,
      text |-> TextOfLen(n)] : n \in 1 .. MaxTokenLen}
    \cup
    {[demo |-> t.demo, headerOK |-> t.headerOK, payloadOK |-> t.payloadOK,
      kid |-> t.kid, alg |-> t.alg, signer |-> t.signer, claims |-> t.claims,
      text |-> TextOfLen(MaxTokenLen)] : t \in ConcTokens}

LogInit ==
    /\ token \in LogTokens
    /\ other = NoFrame
    /\ now = 1
    /\ pc = "start"
    /\ kid = Unbound
    /\ alg = Unbound
    /\ outer = 0
    /\ attempt = 0
    /\ jwks = JwksNone
    /\ keyIdx = 1
    /\ public_key = Unbound
    /\ strat = 1
    /\ decoded_token = DecNone
    /\ result = Pending
    /\ stages = <<>>
    /\ attempted = <<>>
    /\ fallback = "none"
    /\ gpkCalls = 0
    /\ requests = 0
    /\ callResps = <<>>
    /\ callSleeps = <<>>
    /\ got = NoAnswer

LogNext ==
    \/ DemoReject
    \/ HeaderParse
    \/ CallGetPublicKeys
    \/ \E resp \in Responses, doc \in ConcDocs \cup {<<>>} :
          /\ (resp = "ok" <=> doc # <<>>)
          /\ GpkAttempt(resp, doc)
    \/ FetchCheck
    \/ NoKeysFallback
    \/ BeginScan
    \/ ScanKey
    \/ KeyNotFoundFallback
    \/ BeginStrategies
    \/ TryStrategy
    \/ AfterStrategies
    \/ Finalize

SpecLog == LogInit /\ [][LogNext]_vars

----------------------------------------------------------------------------
(* Termination.  verify_token is sequential code: whenever it has a next   *)
(* step it takes it (requests.get has a timeout, time.sleep returns), which *)
(* is weak fairness of the program's steps.  The clock is not the          *)
(* program's and gets no fairness.                                         *)

LiveTokens == {DemoToken} \cup MalformedTokens \cup ConcTokens

LiveInit ==
    /\ token \in LiveTokens
    /\ other = NoFrame
    /\ now = 1
    /\ pc = "start"
    /\ kid = Unbound
    /\ alg = Unbound
    /\ outer = 0
    /\ attempt = 0
    /\ jwks = JwksNone
    /\ keyIdx = 1
    /\ public_key = Unbound
    /\ strat = 1
    /\ decoded_token = DecNone
    /\ result = Pending
    /\ stages = <<>>
    /\ attempted = <<>>
    /\ fallback = "none"
    /\ gpkCalls = 0
    /\ requests = 0
    /\ callResps = <<>>
    /\ callSleeps = <<>>
    /\ got = NoAnswer

(* the steps of the program *)
LiveStep ==
    \/ DemoAccept
    \/ DemoReject
    \/ HeaderParse
    \/ CallGetPublicKeys
    \/ \E resp \in Responses, doc \in ConcDocs \cup {<<>>} :
          /\ (resp = "ok" <=> doc # <<>>)
          /\ GpkAttempt(resp, doc)
    \/ FetchCheck
    \/ NoKeysFallback
    \/ BeginScan
    \/ ScanKey
    \/ KeyNotFoundFallback
    \/ BeginStrategies
    \/ TryStrategy
    \/ AfterStrategies
    \/ Finalize

LiveNext == Tick \/ LiveStep

SpecLive == LiveInit /\ [][LiveNext]_vars /\ WF_vars(LiveStep)

----------------------------------------------------------------------------
(* Vocabulary of the properties *)

Done == pc = "done"
ReturnedIdentity == Done /\ result.kind = "identity"

(* some strategy's jwt.decode passed *)
SomeStrategyPassed ==
    Len(attempted) > 0 /\ attempted[Len(attempted)]

(* every strategy was attempted and rejected the token *)
AllStrategiesRejected ==
    Len(attempted) = 5 /\ \A i \in 1 .. 5 : ~attempted[i]

(* every get_public_keys call of the invocation came back without keys *)
KeyFetchFailed == pc \in {"fetched", "finalize", "done"} /\ ~JwksTruthy(jwks)
                  /\ gpkCalls > 0

(* the scan ended without a verification key *)
KeyNotFound == pc \in {"selected", "finalize", "done"} /\ public_key = None

(* the first key of the set with the given kid that converts, stated       *)
(* independently of the scan: None when there is none                      *)
UsableKeys(keys, k) ==
    {i \in 1 .. Len(keys) : keys[i].kid = k /\ keys[i].convertible}

FirstUsableKey(keys, k) ==
    IF UsableKeys(keys, k) = {} THEN None
    ELSE keys[CHOOSE i \in UsableKeys(keys, k) :
                  \A j \in UsableKeys(keys, k) : i <= j].material

----------------------------------------------------------------------------
(* C1: an identity labelled "full" was decoded by a strategy whose         *)
(* signature check passed, and an identity whose claims came from a        *)
(* signature-unverified decode is labelled "unverified".                   *)
C1_LabelMatchesDecode ==
    (ReturnedIdentity /\ ~token.demo) =>
        /\ (result.validated = "full" =>
               fallback = "none" /\ SomeStrategyPassed)
        /\ (fallback # "none" => result.validated = "unverified")

(* C2: when a key matching the kid was found and every strategy rejected   *)
(* the token, verify_token fails with status 401 and returns no identity;  *)
(* no non-demo identity is returned without a passing signature check.     *)
C2_NoIdentityWithoutSignature ==
    /\ (Done /\ AllStrategiesRejected) =>
           (result.kind = "error" /\ result.status = 401)
    /\ (ReturnedIdentity /\ ~token.demo) =>
           (SomeStrategyPassed /\ fallback = "none")

(* C3: on every path that produced decoded claims, a token whose exp lies  *)
(* in the past fails with 401 "Token has expired".                         *)
C3_ExpiredAlwaysRejected ==
    (Done /\ ~decoded_token.isNone
          /\ Has(decoded_token.claims, "exp")
          /\ decoded_token.claims["exp"] < now) =>
        result = [kind |-> "error", status |-> 401,
                  detail |-> "Token has expired"]

(* C4: when no key of the fetched set has the token's kid and converts,    *)
(* verify_token fails with a 401 error and returns no identity.            *)
C4_KeyNotFoundFails ==
    (Done /\ KeyNotFound) =>
        (result.kind = "error" /\ result.status = 401)

(* C5: when every key fetch attempt failed, verify_token fails with status *)
(* 500, returns no identity and evaluates no strategy.                     *)
C5_KeyServiceUnavailable ==
    (Done /\ KeyFetchFailed) =>
        /\ result.kind = "error"
        /\ result.status = 500
        /\ attempted = <<>>

----------------------------------------------------------------------------
(* C6: the demo token is answered at once with the fixed identity: no      *)
(* header parse, key fetch, request, strategy, fallback or expiry check    *)
(* takes place, whatever the key service would do.                         *)
C6_DemoShortCircuit ==
    (token.demo /\ pc # "start") =>
        /\ pc = "done"
        /\ result = [kind |-> "identity",
                     user |-> <<"d", "e", "m", "o", "-", "u", "s", "e", "r">>,
                     email |-> <<"d", "e", "m", "o", "@", "e", "x", "a", "m",
                                 "p", "l", "e", ".", "c", "o", "m">>,
                     roles |-> << <<"u", "s", "e", "r">> >>]
        /\ stages = <<"demo_check">>
        /\ gpkCalls = 0
        /\ requests = 0
        /\ attempted = <<>>
        /\ fallback = "none"
        /\ decoded_token.isNone

C6_Witness == token.demo /\ ReturnedIdentity

----------------------------------------------------------------------------
(* C7 *)

(* the token's claims satisfy strategy 1 and its header names an RSA       *)
(* algorithm                                                               *)
SatisfiesStrategy1 ==
    /\ ~token.demo /\ token.headerOK /\ token.payloadOK
    /\ token.alg = "RS256"
    /\ Has(token.claims, "aud") /\ token.claims["aud"] = "client-id"
    /\ Has(token.claims, "iss")
    /\ token.claims["iss"] = "https://login.microsoftonline.com/TENANT/v2.0"

(* exp is absent or later than the clock *)
NotExpired == Has(token.claims, "exp") => token.claims["exp"] > now

(* the key that signed the token is in the fetched set under the token's   *)
(* kid, and converts                                                       *)
SignerInKeySet ==
    /\ jwks.kind = "doc"
    /\ \E i \in UsableKeys(jwks.keys, token.kid) :
          jwks.keys[i].material = token.signer

(* the key that signed the token is the first key of the fetched set with  *)
(* the token's kid that converts                                           *)
SignerIsFirstUsableKey ==
    /\ jwks.kind = "doc"
    /\ FirstUsableKey(jwks.keys, token.kid) = token.signer

FullByStrategy1 ==
    /\ result.kind = "identity"
    /\ result.validated = "full"
    /\ attempted = <<TRUE>>
    /\ fallback = "none"

(* C7, as stated: a non-expired token signed by a key present in the       *)
(* fetched key set and satisfying strategy 1 is returned as a "full"       *)
(* identity produced by strategy 1, with no later strategy and no          *)
(* unverified decode.                                                      *)
C7_Original ==
    (Done /\ SatisfiesStrategy1 /\ NotExpired /\ SignerInKeySet) =>
        FullByStrategy1

(* C7, amended: the same, for a token signed by the key that key selection *)
(* picks, the first key with the token's kid that converts.                *)
C7_FullByFirstStrategy ==
    (Done /\ SatisfiesStrategy1 /\ NotExpired /\ SignerIsFirstUsableKey) =>
        FullByStrategy1

C7_Witness ==
    /\ Done /\ SatisfiesStrategy1 /\ NotExpired /\ SignerIsFirstUsableKey
    /\ Len(jwks.keys) = 2
    /\ Has(token.claims, "exp")
    /\ FullByStrategy1

----------------------------------------------------------------------------
(* C8: strategies are attempted in order, one after the failure of the one *)
(* before; nothing is attempted after a strategy that passed; the claims   *)
(* kept are those of the lowest-numbered strategy that passes.             *)
C8_SequentialFirstSuccess ==
    /\ Len(attempted) <= 5
    /\ \A i \in 1 .. Len(attempted) - 1 : ~attempted[i]
    /\ (pc = "strategies") =>
          /\ strat = Len(attempted) + 1
          /\ ~SomeStrategyPassed
          /\ decoded_token.isNone
    /\ (pc = "after_strategies") =>
          /\ SomeStrategyPassed \/ Len(attempted) = 5
          /\ \A j \in 1 .. Len(attempted) :
                attempted[j] =
                  StrategyPasses(token, public_key,
                                 validation_strategies(token.alg)[j], now)
          /\ SomeStrategyPassed => decoded_token = Dec(token.claims)
          /\ ~SomeStrategyPassed => decoded_token.isNone

C8_Witness ==
    pc = "after_strategies" /\ attempted = <<FALSE, FALSE, TRUE>>

----------------------------------------------------------------------------
(* C9: the scan picks the first key whose kid equals the header's kid and  *)
(* whose conversion succeeds, skips a key with that kid whose conversion   *)
(* fails, and ends without a key only when no key both matches and         *)
(* converts.                                                               *)
C9_FirstUsableKeySelected ==
    /\ (pc = "selected") =>
          public_key = FirstUsableKey(jwks.keys, token.kid)
    /\ (pc = "scan") =>
          /\ public_key = None
          /\ \A i \in UsableKeys(jwks.keys, token.kid) : keyIdx <= i

C9_Witness ==
    /\ pc = "selected"
    /\ Len(jwks.keys) = 2
    /\ jwks.keys[1].kid = token.kid /\ ~jwks.keys[1].convertible
    /\ jwks.keys[2].kid = token.kid /\ jwks.keys[2].convertible
    /\ public_key = jwks.keys[2].material

----------------------------------------------------------------------------
(* C10: one get_public_keys call issues at most 3 requests, returns the    *)
(* document of the first request that succeeds and issues none after it,   *)
(* sleeps 1 s and then 2 s between failed attempts and not after the last, *)
(* and returns None only after 3 failed requests.                          *)
FailedRequests == {i \in 1 .. Len(callResps) : callResps[i] = "fail"}

C10_RetryBackoff ==
    /\ Len(callResps) <= 3
    /\ \A i \in 1 .. Len(callResps) - 1 : callResps[i] = "fail"
    /\ Len(callSleeps) = (IF Cardinality(FailedRequests) < 2
                           THEN Cardinality(FailedRequests) ELSE 2)
    /\ \A i \in 1 .. Len(callSleeps) : callSleeps[i] = 2 ^ (i - 1)
    /\ (pc = "gpk") => Cardinality(FailedRequests) = Len(callResps)
                        /\ Len(callResps) < 3
    /\ (pc = "fetch_ret") =>
          /\ Len(callResps) >= 1
          /\ (jwks.kind = "None") <=> (callResps = <<"fail", "fail", "fail">>)
          /\ (jwks.kind = "doc") <=> (callResps[Len(callResps)] = "ok")
          /\ (jwks.kind = "empty") <=> (callResps[Len(callResps)] = "empty")

C10_Witness ==
    /\ pc = "fetch_ret"
    /\ callResps = <<"fail", "fail", "ok">>
    /\ callSleeps = <<1, 2>>
    /\ jwks.kind = "doc"

C10_WitnessAllFailed ==
    /\ pc = "fetch_ret"
    /\ callResps = <<"fail", "fail", "fail">>
    /\ callSleeps = <<1, 2>>
    /\ jwks.kind = "None"

----------------------------------------------------------------------------
(* C12, as stated: within one invocation get_public_keys is called at most *)
(* once, so at most max_retries requests go to the endpoint.               *)
C12_Original ==
    /\ gpkCalls <= 1
    /\ requests <= max_retries

(* C12, as the code has it: within one invocation get_public_keys is       *)
(* called at most OuterAttempts times, a further call only after the       *)
(* previous one came back without keys, and each call makes at most        *)
(* max_retries requests, so at most OuterAttempts * max_retries requests   *)
(* go to the endpoint.                                                     *)
C12_CallsBounded ==
    /\ gpkCalls <= OuterAttempts
    /\ requests <= max_retries * gpkCalls
    /\ requests <= OuterAttempts * max_retries
    /\ Len(callResps) <= max_retries
    /\ (gpkCalls > 1 /\ pc = "gpk") => ~JwksTruthy(jwks)
    /\ (pc \in {"gpk", "fetch_ret"}) => gpkCalls = outer + 1

C12_Witness ==
    /\ pc = "fetched"
    /\ gpkCalls = OuterAttempts
    /\ requests = OuterAttempts * max_retries
    /\ ~JwksTruthy(jwks)

----------------------------------------------------------------------------
(* the stages in the order verify_token takes them *)
StageOrder ==
    <<"demo_check", "header_parse", "key_fetch", "key_match",
      "strategy_eval", "finalize">>

StageIndex(st) == CHOOSE i \in 1 .. Len(StageOrder) : StageOrder[i] = st

StageSeen(st) == \E i \in 1 .. Len(stages) : stages[i] = st

C13_FailsAtHeaderParse ==
    Done /\ result.kind = "error" /\ stages[Len(stages)] = "header_parse"
C13_FailsAtKeyFetch ==
    Done /\ result.kind = "error" /\ stages[Len(stages)] = "key_fetch"
C13_FailsAtKeyMatch ==
    Done /\ result.kind = "error" /\ stages[Len(stages)] = "key_match"
C13_FailsAtStrategyEval ==
    Done /\ result.kind = "error" /\ stages[Len(stages)] = "strategy_eval"
C13_FailsAtFinalize ==
    Done /\ result.kind = "error" /\ stages[Len(stages)] = "finalize"

----------------------------------------------------------------------------
(* C14: a failure has status 500 exactly when every key fetch of the       *)
(* invocation failed, and status 401 otherwise.                            *)
C14_StatusOfFailure ==
    (Done /\ result.kind = "error") =>
        /\ result.status \in {401, 500}
        /\ (result.status = 500 <=> KeyFetchFailed)

----------------------------------------------------------------------------
(* C15: a non-demo token whose header does not parse fails with 401        *)
(* "Invalid token format" right after the header parse: no key is          *)
(* requested, no key is matched, no strategy is evaluated and no fallback  *)
(* decode is taken.                                                        *)
C15_MalformedHeaderRejected ==
    (~token.demo /\ ~HeaderParses(token) /\ pc \notin {"start", "header"}) =>
        /\ Done
        /\ result = [kind |-> "error", status |-> 401,
                     detail |-> "Invalid token format"]
        /\ stages = <<"demo_check", "header_parse">>
        /\ gpkCalls = 0
        /\ requests = 0
        /\ public_key = Unbound
        /\ attempted = <<>>
        /\ fallback = "none"
        /\ decoded_token.isNone

C15_Witness ==
    /\ Done
    /\ ~token.demo
    /\ ~HeaderParses(token)
    /\ token.payloadOK
    /\ result.kind = "error"
    /\ result.detail = "Invalid token format"

----------------------------------------------------------------------------
(* C19: when every key fetch failed and the payload decodes without        *)
(* verification to claims that are not expired, verify_token returns an    *)
(* identity labelled "unverified".                                         *)
C19_DegradedIdentity ==
    (Done /\ KeyFetchFailed /\ UnverifiedDecodes(token)
          /\ token.claims # EmptyClaims
          /\ ~(Has(token.claims, "exp") /\ token.claims["exp"] < now)) =>
        /\ result.kind = "identity"
        /\ result.validated = "unverified"

----------------------------------------------------------------------------
(* the claims of a chain that are present and not empty, by position *)
PresentIn(c, chain) == {i \in 1 .. Len(chain) : TruthyText(c, chain[i])}

(* the value of the first of them *)
FirstPresent(c, chain) ==
    c[chain[CHOOSE i \in PresentIn(c, chain) :
                \A j \in PresentIn(c, chain) : i <= j]]

NameChain == <<"name", "preferred_username", "unique_name", "email", "upn">>
EmailChain == <<"email", "preferred_username", "upn">>

(* C16: the display name of a returned identity is the first non-empty     *)
(* value among name, preferred_username, unique_name, email, upn; when     *)
(* there is none and sub is not empty it is "user_" followed by the first  *)
(* 8 characters of sub.  Claims with only email give the email value; sub  *)
(* "abcdefgh1234" alone gives "user_abcdefgh".                             *)
C16_DisplayNameChain ==
    (ReturnedIdentity /\ ~token.demo) =>
        LET c == token.claims IN
        /\ PresentIn(c, NameChain) # {} =>
               result.user = FirstPresent(c, NameChain)
        /\ (PresentIn(c, NameChain) = {} /\ TruthyText(c, "sub")) =>
               /\ Len(result.user) = 5 + (IF Len(c["sub"]) < 8
                                            THEN Len(c["sub"]) ELSE 8)
               /\ \A i \in 1 .. Len(result.user) :
                     result.user[i] = IF i <= 5
                                        THEN <<"u", "s", "e", "r", "_">>[i]
                                        ELSE c["sub"][i - 5]
        /\ (PresentIn(c, NameChain) = {4}) => result.user = c["email"]
        /\ (PresentIn(c, NameChain) = {} /\ Has(c, "sub")
                /\ c["sub"] = <<"a", "b", "c", "d", "e", "f", "g", "h",
                                "1", "2", "3", "4">>) =>
               result.user = <<"u", "s", "e", "r", "_",
                               "a", "b", "c", "d", "e", "f", "g", "h">>

(* the name comes from unique_name although email and upn are present *)
C16_Witness ==
    /\ ReturnedIdentity
    /\ ~token.demo
    /\ PresentIn(token.claims, NameChain) = {3, 4, 5}
    /\ Has(token.claims, "name")
    /\ result.user = S_uniq

C16_WitnessSynthesized ==
    /\ ReturnedIdentity
    /\ ~token.demo
    /\ PresentIn(token.claims, NameChain) = {}
    /\ result.user = <<"u", "s", "e", "r", "_",
                       "a", "b", "c", "d", "e", "f", "g", "h">>

(* C17: the email of a returned identity is the first non-empty value      *)
(* among email, preferred_username, upn, and the empty string when there   *)
(* is none, whatever name and unique_name hold.                            *)
C17_EmailChain ==
    (ReturnedIdentity /\ ~token.demo) =>
        LET c == token.claims IN
        /\ PresentIn(c, EmailChain) # {} =>
               result.email = FirstPresent(c, EmailChain)
        /\ PresentIn(c, EmailChain) = {} => result.email = <<>>

(* name and unique_name are there, the three email sources are not *)
C17_Witness ==
    /\ ReturnedIdentity
    /\ ~token.demo
    /\ TruthyText(token.claims, "name")
    /\ TruthyText(token.claims, "unique_name")
    /\ PresentIn(token.claims, EmailChain) = {}
    /\ result.email = <<>>

C17_WitnessUpn ==
    /\ ReturnedIdentity
    /\ ~token.demo
    /\ PresentIn(token.claims, EmailChain) = {3}
    /\ Has(token.claims, "email")
    /\ result.email = S_upn

----------------------------------------------------------------------------
(* C18: every identity verify_token returns has roles equal to the         *)
(* one-element list ["user"]: the demo identity, the identities from a     *)
(* verified decode and those from an unverified decode, whatever roles or  *)
(* groups claim the token carries.                                         *)
C18_RolesFixed ==
    ReturnedIdentity => result.roles = << <<"u", "s", "e", "r">> >>

(* a signature-verified token with a roles claim *)
C18_Witness ==
    /\ ReturnedIdentity
    /\ Has(token.claims, "roles")
    /\ result.validated = "full"
    /\ result.roles = << <<"u", "s", "e", "r">> >>

C18_WitnessDemo ==
    ReturnedIdentity /\ token.demo /\ result.roles = << <<"u", "s", "e", "r">> >>

C18_WitnessUnverified ==
    /\ ReturnedIdentity
    /\ Has(token.claims, "groups")
    /\ fallback = "key_not_found"
    /\ result.validated = "unverified"

----------------------------------------------------------------------------
(* the requests of the current get_public_keys call that went to endpoint  *)
(* e and failed, among the first n                                         *)
FailedAt(e, n) ==
    Cardinality({i \in 1 .. n : callResps[i] = <<e, "fail">>})

(* C11: the endpoints are asked in order, the tenant-specific one first;   *)
(* the common endpoint is asked only after the tenant-specific one has     *)
(* failed max_retries times; the call returns at the first parseable       *)
(* answer; it fails only after every endpoint failed max_retries times.    *)
C11_EndpointsWithRetries ==
    /\ \A i \in 1 .. Len(callResps) :
          /\ callResps[i][1] = "common" =>
                FailedAt("tenant", i - 1) = max_retries
          /\ callResps[i][1] = "tenant" =>
                \A j \in 1 .. i : callResps[j][1] = "tenant"
          /\ (callResps[i][2] # "fail") => i = Len(callResps)
    /\ (Done /\ result.kind = "error"
             /\ result.detail = "Unable to validate token") =>
          \A e \in {"tenant", "common"} :
             FailedAt(e, Len(callResps)) = max_retries

(* what the Module 02 code does: one request per endpoint, in order *)
C11_M2_OneRequestEach ==
    /\ Len(callResps) <= Len(M2_endpoints)
    /\ \A i \in 1 .. Len(callResps) :
          /\ callResps[i][1] = M2_endpoints[i]
          /\ (callResps[i][2] # "fail") => i = Len(callResps)
          /\ i > 1 => callResps[i - 1][2] = "fail"
    /\ (Done /\ result.kind = "error"
             /\ result.detail = "Unable to validate token") =>
          callResps = <<<<"tenant", "fail">>, <<"common", "fail">>>>

----------------------------------------------------------------------------
(* The outcome of verify_token as a function of its inputs: the token, the *)
(* last answer of the key service and the clock.                           *)

(* what the loop of lines 115-122 ends with, given the last answer *)
JwksAfter(g) ==
    IF g[1] = "ok" THEN JwksOf(g[2])
    ELSE IF g[1] = "empty" THEN JwksEmpty
    ELSE JwksNone

(* lines 223-262, from the decoded claims and the binding of public_key *)
OutcomeOfClaims(c, pk, time) ==
    IF ~DictTruthy(c) THEN HTTPException(401, "Invalid token")
    ELSE IF ManualExpired(c, time) THEN HTTPException(401, TOKEN_EXPIRED_MSG)
    ELSE IF pk = Unbound THEN UnexpectedError
    ELSE user_info(c, pk)

SoloOutcome(t, g, time) ==
    IF t.demo THEN DemoIdentity
    ELSE IF ~HeaderParses(t) THEN HTTPException(401, "Invalid token format")
    ELSE IF ~JwksTruthy(JwksAfter(g))
    THEN IF UnverifiedDecodes(t)
         THEN OutcomeOfClaims(t.claims, Unbound, time)
         ELSE HTTPException(500, "Authentication service unavailable")
    ELSE LET key == FirstUsableKey(JwksAfter(g).keys, t.kid) IN
         IF key = None
         THEN IF UnverifiedDecodes(t)
              THEN OutcomeOfClaims(t.claims, None, time)
              ELSE HTTPException(401, "Invalid token signature")
         ELSE IF UnverifiedDecodes(t)
         THEN OutcomeOfClaims(t.claims, key, time)
         ELSE HTTPException(401, "Token validation failed")

(* an invocation that ran alone ends with SoloOutcome at the clock of its   *)
(* last step                                                               *)
SoloOutcomeIsSolo ==
    Done => result = SoloOutcome(token, got, now)

(* C20: under every interleaving of two invocations, the outcome of each   *)
(* is the outcome it has running alone with the same token and the same    *)
(* answers of the key service; a context switch finds the frame of the     *)
(* resumed invocation as it was left.                                      *)
C20_NoInterference ==
    /\ Done => result = SoloOutcome(token, got, now)
    /\ other.pc = "done" =>
          other.result = SoloOutcome(other.token, other.got, now)
    /\ (pc \in {"fetched", "scan", "selected", "strategies"}) =>
          jwks = JwksAfter(got)
    /\ (other.pc \in {"fetched", "scan", "selected", "strategies"}) =>
          other.jwks = JwksAfter(other.got)

(* both invocations are between their key fetch and its use, with the      *)
(* same token and different answers of the key service                     *)
C20_Witness ==
    /\ pc = "fetch_ret"
    /\ other.pc = "fetch_ret"
    /\ token = other.token
    /\ JwksTruthy(jwks)
    /\ ~JwksTruthy(other.jwks)

(* both are done, the same token, different outcomes *)
C20_WitnessBothDone ==
    /\ Done
    /\ other.pc = "done"
    /\ token = other.token
    /\ result.kind = "identity"
    /\ other.result.kind = "error"

----------------------------------------------------------------------------
(* C21: get_public_keys never propagates an exception.  Whatever a request *)
(* raises (timeout, connection error, error status, unparseable body), the *)
(* call goes on to its next attempt and returns a parsed body or None:     *)
(* None exactly when all max_retries attempts raised.  verify_token never  *)
(* ends on an exception out of get_public_keys, and scans for a key only   *)
(* when the returned value is truthy.                                      *)
C21_NoExceptionFromFetch ==
    /\ pc = "gpk" =>
          \A i \in 1 .. Len(callResps) : callResps[i] \in ExceptionKinds
    /\ pc = "fetch_ret" =>
          /\ jwks.kind \in {"None", "empty", "doc"}
          /\ jwks.kind = "None" <=>
                /\ Len(callResps) = max_retries
                /\ \A i \in 1 .. Len(callResps) :
                      callResps[i] \in ExceptionKinds
          /\ jwks.kind = "empty" <=> callResps[Len(callResps)] = "empty"
          /\ jwks.kind = "doc" <=>
                (callResps[Len(callResps)] = "ok" /\ jwks.keys = got[2])
    /\ (Done /\ got[1] \in ExceptionKinds) =>
          /\ gpkCalls = OuterAttempts
          /\ ~JwksTruthy(jwks)
          /\ StageSeen("finalize") \/ result.status = 500
    /\ (StageSeen("key_match") \/ public_key # Unbound) => JwksTruthy(jwks)

(* three different failures in one call, and None returned *)
C21_Witness ==
    /\ pc = "fetch_ret"
    /\ callResps = <<"Timeout", "JSONDecodeError", "AttributeError">>
    /\ jwks = JwksNone

----------------------------------------------------------------------------
(* the number of checks among audience and issuer a strategy enforces *)
Enforced(st) ==
    (IF st.verify_aud THEN 1 ELSE 0) + (IF st.verify_iss THEN 1 ELSE 0)

(* C22: the strategy list in use is ordered from strictest to most         *)
(* permissive: the number of enforced checks among audience and issuer     *)
(* never increases from one strategy to the next, the first strategy       *)
(* enforces both and the last enforces neither.                            *)
C22_StrictestFirst ==
    pc \in {"strategies", "after_strategies"} =>
        LET L == validation_strategies(alg) IN
        /\ Len(L) = NumStrategies
        /\ \A i \in 1 .. Len(L) - 1 : Enforced(L[i]) >= Enforced(L[i + 1])
        /\ Enforced(L[1]) = 2
        /\ L[1].audience # None /\ L[1].issuer # None
        /\ Enforced(L[Len(L)]) = 0
        /\ \A i \in 1 .. Len(L) :
              /\ L[i].verify_aud => L[i].audience # None
              /\ L[i].verify_iss => L[i].issuer # None

(* a token that only the last, signature-only strategy accepts *)
C22_Witness ==
    /\ pc = "after_strategies"
    /\ attempted = <<FALSE, FALSE, FALSE, FALSE, TRUE>>

----------------------------------------------------------------------------
(* C23: what verify_token logs of a non-demo token is a strict prefix of   *)
(* the token, never the whole string, whatever the token's length.         *)
C23_OnlyStrictPrefix ==
    (~token.demo /\ StageSeen("demo_check")) =>
        /\ Len(TokenLogLine(token)) < Len(token.text)
        /\ TokenLogLine(token) = SubSeq(token.text, 1, Len(TokenLogLine(token)))

(* what does hold: a token longer than the logged prefix is not logged in  *)
(* full                                                                    *)
C23_LongTokensCut ==
    (~token.demo /\ StageSeen("demo_check")
         /\ Len(token.text) > LogPrefixLen) =>
        /\ Len(TokenLogLine(token)) = LogPrefixLen
        /\ TokenLogLine(token) = SubSeq(token.text, 1, LogPrefixLen)

----------------------------------------------------------------------------
(* C24: the accepted-algorithm list of the strategies does not depend on   *)
(* the alg field of the token's header: a token that differs only in alg   *)
(* is verified against the same list.                                      *)
C24_AlgIndependent ==
    pc = "strategies" =>
        \A a \in Algs :
            validation_strategies(alg)[strat].algorithms
                = validation_strategies(a)[strat].algorithms

----------------------------------------------------------------------------
(* signature and expiry only, as the last strategy checks them: nothing    *)
(* here reads aud or iss                                                   *)
SignatureAndExpiry(t, key, time) ==
    /\ t.alg \in RsaAlgs
    /\ t.signer = key
    /\ t.payloadOK
    /\ (Has(t.claims, "exp") => t.claims["exp"] > time)

(* C25: the sequence of strategies accepts a token with the selected key   *)
(* exactly when the last strategy alone accepts it (signature and expiry   *)
(* at the clock of the deciding attempt), and the claims it returns are    *)
(* the token's claims; aud and iss only decide which strategy accepts.     *)
C25_SequenceIsLastStrategy ==
    pc = "after_strategies" =>
        /\ SomeStrategyPassed <=>
              StrategyPasses(token, public_key,
                             validation_strategies(alg)[NumStrategies], now)
        /\ SomeStrategyPassed <=> SignatureAndExpiry(token, public_key, now)
        /\ SomeStrategyPassed =>
              (~decoded_token.isNone /\ decoded_token.claims = token.claims)
        /\ ~SomeStrategyPassed =>
              (decoded_token.isNone /\ Len(attempted) = NumStrategies)

(* a token with another audience, accepted by the third strategy *)
C25_Witness ==
    /\ pc = "after_strategies"
    /\ attempted = <<FALSE, FALSE, TRUE>>
    /\ token.claims["aud"] # CLIENT_ID
    /\ decoded_token.claims = token.claims

----------------------------------------------------------------------------
(* C26: the expiry check of the finalize stage rejects exactly when exp is *)
(* present, not 0 and strictly earlier than the clock; without exp, with   *)
(* exp = 0 and with exp equal to the clock the invocation goes on to the   *)
(* identity extraction.                                                    *)
C26_ExpiryCheck ==
    (Done /\ StageSeen("finalize") /\ DecTruthy(decoded_token)) =>
        LET c == decoded_token.claims
            rejected == result = [kind |-> "error", status |-> 401,
                                  detail |-> "Token has expired"]
        IN
        /\ rejected <=> (Has(c, "exp") /\ c["exp"] # 0 /\ c["exp"] < now)
        /\ ~rejected =>
              \/ result.kind = "identity"
              \/ (public_key = Unbound /\ result = UnexpectedError)

(* exp equal to the clock: an identity *)
C26_Witness ==
    /\ ReturnedIdentity
    /\ Has(token.claims, "exp")
    /\ token.claims["exp"] = now

C26_WitnessZero ==
    /\ ReturnedIdentity
    /\ Has(token.claims, "exp")
    /\ token.claims["exp"] = 0
    /\ now > 0

C26_WitnessRejected ==
    /\ Done
    /\ result.kind = "error"
    /\ result.detail = "Token has expired"
    /\ token.claims["exp"] = 1
    /\ now = 2

----------------------------------------------------------------------------
Failure(status, detail) ==
    [kind |-> "error", status |-> status, detail |-> detail]

(* C27: verify_token ends with an identity or with an HTTPException.  The  *)
(* HTTPException raised at a stage arrives with the status and detail it   *)
(* was raised with; an internal error (here the read of the unbound        *)
(* public_key) arrives as 401 "Invalid authentication credentials", and no *)
(* identity is returned after it.                                          *)
C27_OnlyHTTPException ==
    Done =>
        /\ result.kind \in {"identity", "error"}
        /\ result.kind = "error" =>
              LET last == stages[Len(stages)] IN
              /\ last = "header_parse" =>
                    result = Failure(401, "Invalid token format")
              /\ last = "key_fetch" =>
                    result = Failure(500, "Authentication service unavailable")
              /\ last = "key_match" =>
                    result = Failure(401, "Invalid token signature")
              /\ last = "strategy_eval" =>
                    result = Failure(401, "Token validation failed")
              /\ last = "finalize" =>
                    result \in {Failure(401, "Invalid token"),
                                Failure(401, "Token has expired"),
                                Failure(401, "Invalid authentication credentials")}
        /\ result = Failure(401, "Invalid authentication credentials") <=>
              /\ StageSeen("finalize")
              /\ public_key = Unbound
              /\ DecTruthy(decoded_token)
              /\ ~ManualExpired(decoded_token.claims, now)
        /\ (StageSeen("finalize") /\ public_key = Unbound) =>
              result.kind = "error"

(* an HTTPException with a status other than 401 arrives unchanged *)
C27_Witness ==
    /\ Done
    /\ result = Failure(500, "Authentication service unavailable")

(* the internal error, converted *)
C27_WitnessInternal ==
    /\ Done
    /\ public_key = Unbound
    /\ result = Failure(401, "Invalid authentication credentials")

----------------------------------------------------------------------------
(* the loops of one invocation are within their bounds *)
LoopsBounded ==
    /\ outer <= OuterAttempts
    /\ gpkCalls <= OuterAttempts
    /\ attempt <= max_retries
    /\ Len(callResps) <= max_retries
    /\ requests <= OuterAttempts * max_retries
    /\ Len(attempted) <= NumStrategies
    /\ strat <= NumStrategies + 1
    /\ keyIdx <= Len(jwks.keys) + 1
    /\ (token.demo \/ ~HeaderParses(token)) => (requests = 0 /\ gpkCalls = 0)

(* C28: every invocation ends with an identity or a failure, also when     *)
(* every request to the key service fails; the loops stay within 3         *)
(* orchestrator attempts, 3 requests per call, 5 strategies and one pass   *)
(* over the key set; a demo token and a token with an unparseable header   *)
(* cause no request.                                                       *)
C28_Terminates ==
    /\ <>(Done /\ result.kind \in {"identity", "error"})
    /\ []LoopsBounded

(* the invocation has ended after nine failed requests *)
C28_Witness ==
    /\ Done
    /\ requests = OuterAttempts * max_retries
    /\ gpkCalls = OuterAttempts
    /\ got[1] = "fail"
    /\ result.kind = "error"

----------------------------------------------------------------------------
(* the claims of a chain that are there with the empty string as value *)
EmptyIn(c, chain) ==
    {i \in 1 .. Len(chain) : Has(c, chain[i]) /\ c[chain[i]] = <<>>}

(* the value at position j decides the chain: nothing before it is both    *)
(* present and not empty                                                   *)
Decides(c, chain, j) ==
    /\ TruthyText(c, chain[j])
    /\ \A i \in 1 .. (j - 1) : ~TruthyText(c, chain[i])

(* the decoded claims reached the extraction with a key in hand *)
ReachedExtraction ==
    /\ Done
    /\ ~token.demo
    /\ StageSeen("finalize")
    /\ DecTruthy(decoded_token)
    /\ public_key # Unbound
    /\ ~ManualExpired(decoded_token.claims, now)

(* C29: identity extraction does not fail on missing identity claims.      *)
(* With none of name, preferred_username, unique_name, email, upn present  *)
(* the display name is "user_unknown" when sub is absent or empty and      *)
(* "user_" followed by the whole sub when sub is shorter than 8            *)
(* characters; an empty-string value is passed over like an absent one at  *)
(* every position of the display-name chain and of the email chain.        *)
C29_MissingClaims ==
    ReachedExtraction =>
        LET c == decoded_token.claims IN
        /\ result.kind = "identity"
        /\ Len(result.user) > 0
        /\ (PresentIn(c, NameChain) = {} /\ ~Has(c, "sub")) =>
               result.user = <<"u", "s", "e", "r", "_",
                               "u", "n", "k", "n", "o", "w", "n">>
        /\ (PresentIn(c, NameChain) = {} /\ Has(c, "sub")
                /\ c["sub"] = <<>>) =>
               result.user = <<"u", "s", "e", "r", "_",
                               "u", "n", "k", "n", "o", "w", "n">>
        /\ (PresentIn(c, NameChain) = {} /\ Has(c, "sub")
                /\ Len(c["sub"]) \in 1 .. 7) =>
               result.user = <<"u", "s", "e", "r", "_">> \o c["sub"]
        /\ \A j \in 1 .. Len(NameChain) :
               Decides(c, NameChain, j) => result.user = c[NameChain[j]]
        /\ \A j \in 1 .. Len(EmailChain) :
               Decides(c, EmailChain, j) => result.email = c[EmailChain[j]]
        /\ (\A j \in 1 .. Len(EmailChain) : ~Decides(c, EmailChain, j)) =>
               result.email = <<>>

(* every identity claim is the empty string, sub included *)
C29_Witness ==
    /\ ReachedExtraction
    /\ EmptyIn(decoded_token.claims, NameChain) = 1 .. Len(NameChain)
    /\ Has(decoded_token.claims, "sub")
    /\ decoded_token.claims["sub"] = <<>>
    /\ result.kind = "identity"
    /\ result.user = S_user_ \o S_unknown

(* a sub of three characters is used whole *)
C29_WitnessShortSub ==
    /\ ReachedExtraction
    /\ PresentIn(decoded_token.claims, NameChain) = {}
    /\ Has(decoded_token.claims, "sub")
    /\ Len(decoded_token.claims["sub"]) = 3
    /\ Len(result.user) = 8

(* empty values before the deciding one in both chains *)
C29_WitnessPassedOver ==
    /\ ReachedExtraction
    /\ EmptyIn(decoded_token.claims, NameChain) = {1, 2, 3, 4}
    /\ result.user = S_upn
    /\ result.email = S_upn

----------------------------------------------------------------------------
(* both endpoints were asked and both requests failed *)
M2_BothEndpointsFailed ==
    /\ Len(callResps) = Len(M2_endpoints)
    /\ \A i \in 1 .. Len(callResps) :
          callResps[i] = <<M2_endpoints[i], "fail">>

(* the unverified decode is about to run, has run, or has failed *)
M2_AtUnverified ==
    \/ pc = "m2_unverified"
    \/ fallback = "all_failed"
    \/ result = Failure(401, "Token validation failed")

(* the selected key is a key of the fetched set with the token's kid *)
M2_MatchingKeyFound ==
    /\ public_key \notin {None, Unbound}
    /\ \E i \in 1 .. Len(jwks.keys) :
          /\ jwks.keys[i].kid = kid
          /\ jwks.keys[i].convertible
          /\ jwks.keys[i].material = public_key

(* C30: in the Module 02 verify_token a failed key fetch (both endpoints)  *)
(* and a key that is not found each end in a 401 with nothing decoded; the *)
(* unverified decode is reached only with a matching key in hand and after *)
(* the three configurations and then the relaxed validation were each      *)
(* attempted, in that order, and failed.                                   *)
C30_M2_UnverifiedLast ==
    /\ (Done /\ M2_BothEndpointsFailed) =>
          /\ result = Failure(401, "Unable to validate token")
          /\ decoded_token = DecNone
          /\ attempted = <<>>
          /\ fallback = "none"
    /\ (Done /\ public_key = None) =>
          /\ result = Failure(401, "Invalid token signature")
          /\ decoded_token = DecNone
          /\ attempted = <<>>
          /\ fallback = "none"
    /\ M2_AtUnverified =>
          /\ M2_MatchingKeyFound
          /\ attempted = <<FALSE, FALSE, FALSE, FALSE>>
          /\ strat = Len(M2_validation_configs(alg)) + 1
          /\ \A i \in 1 .. Len(M2_validation_configs(alg)) :
                ~StrategyPasses(token, public_key,
                                M2_validation_configs(alg)[i], now)
          /\ ~StrategyPasses(token, public_key, M2_relaxed(alg), now)

(* an identity out of the unverified decode *)
C30_Witness ==
    /\ Done
    /\ fallback = "all_failed"
    /\ result.kind = "identity"
    /\ attempted = <<FALSE, FALSE, FALSE, FALSE>>

(* both endpoints failed *)
C30_WitnessFetchFailed ==
    /\ Done
    /\ M2_BothEndpointsFailed
    /\ result = Failure(401, "Unable to validate token")

(* a key set without the token's key *)
C30_WitnessKeyNotFound ==
    /\ Done
    /\ public_key = None
    /\ Len(jwks.keys) > 0
    /\ result = Failure(401, "Invalid token signature")

====
